---- MODULE Spec2Model ----
(***************************************************************************)
(* The OpenGL backend of the SDL 2D renderer                               *)
(* (src/render/opengl/SDL_render_gl.c): the command-queue executor         *)
(* GL_RunCommandQueue with its state helpers SetDrawState / SetCopyState,  *)
(* the activation and error-check helpers, and a model of the OpenGL       *)
(* state the issued calls act on.                                          *)
(*                                                                         *)
(* A backend call is a record [f |-> name, a |-> argument].  Each command  *)
(* handler is a pure operator from the executor's local state (the cache)  *)
(* and the command to the new cache and the sequence of calls it issues;   *)
(* the OpenGL state is the fold of ApplyCall over those calls.             *)
(***************************************************************************)
EXTENDS Integers, Sequences, FiniteSets, TLC

\* ------------------------------------------------------------------ bounds
\* Longest command list handed to one run.
MaxCmds == 2
\* Longest vertex buffer handed to one run, in points (two GLfloats each).
MaxVerts == 4
\* The largest width and height of a texture.
MaxTexSize == 3
\* Drawable size reported by the window (SDL_GL_GetDrawableSize).
DrawableW == 4
DrawableH == 4

NULL == "NULL"
\* The null pointer to a structure.
NullPtr == [null |-> TRUE]

\* ------------------------------------------------------------ value domains
Red == [r |-> 255, g |-> 0, b |-> 0, a |-> 255]
Blue == [r |-> 0, g |-> 0, b |-> 255, a |-> 255]
ColorSet == {Red, Blue}

RectFull == [x |-> 0, y |-> 0, w |-> 4, h |-> 4]
RectSmall == [x |-> 1, y |-> 1, w |-> 2, h |-> 1]
RectSet == {RectFull, RectSmall}
\* A viewport of no extent.
RectEmpty == [x |-> 0, y |-> 0, w |-> 0, h |-> 0]

BlendSet == {"SDL_BLENDMODE_NONE", "SDL_BLENDMODE_BLEND"}

\* A point of the vertex buffer: two GLfloats, in units of one half, so that the
\* 0.5f + x of GL_QueueDrawPoints is the odd number 2x + 1.
Pt(x, y) == [x |-> x, y |-> y]
PointSet == {Pt(1, 1), Pt(3, 1), Pt(1, 3)}
\* What the allocation holds past the vertices in use: the points at the even
\* and at the odd distances from the end of the vertices.
SlackSet == {<<Pt(3, 1), Pt(5, 5)>>, <<Pt(5, 5), Pt(5, 5)>>}
\* The vertex buffer of the runs that do not vary it.
VertsDefault == <<Pt(1, 1), Pt(3, 1), Pt(1, 3), Pt(3, 3)>>

\* Textures as the executor sees them: SDL_Texture with its GL_TextureData.
\* yuvmode stands for SDL_GetYUVConversionModeForResolution(w, h).
TexRGB ==
    [format |-> "SDL_PIXELFORMAT_ARGB8888", yuv |-> FALSE, nv12 |-> FALSE,
     yuvmode |-> "SDL_YUV_CONVERSION_BT601", texture |-> 1, utexture |-> 0, vtexture |-> 0]
TexYUV ==
    [format |-> "SDL_PIXELFORMAT_YV12", yuv |-> TRUE, nv12 |-> FALSE,
     yuvmode |-> "SDL_YUV_CONVERSION_BT601", texture |-> 2, utexture |-> 3, vtexture |-> 4]
TextureSet == {"texA", "texB"}

\* The data GL_CreateTexture leaves for a texture of the given format, with the
\* conversion mode SDL_GetYUVConversionModeForResolution gives its size.
TexOf(format, yuvmode) ==
    LET yuv == format \in {"SDL_PIXELFORMAT_YV12", "SDL_PIXELFORMAT_IYUV"}
        nv12 == format \in {"SDL_PIXELFORMAT_NV12", "SDL_PIXELFORMAT_NV21"}
    IN  [format |-> format, yuv |-> yuv, nv12 |-> nv12, yuvmode |-> yuvmode,
         texture |-> 5, utexture |-> IF yuv \/ nv12 THEN 6 ELSE 0,
         vtexture |-> IF yuv THEN 7 ELSE 0]

\* The textures by pointer: every format with every conversion mode.
TextureTable ==
    [texA |-> TexRGB,
     texB |-> TexYUV,
     tex_argb_jpeg |-> TexOf("SDL_PIXELFORMAT_ARGB8888", "SDL_YUV_CONVERSION_JPEG"),
     tex_argb_bt601 |-> TexOf("SDL_PIXELFORMAT_ARGB8888", "SDL_YUV_CONVERSION_BT601"),
     tex_argb_bt709 |-> TexOf("SDL_PIXELFORMAT_ARGB8888", "SDL_YUV_CONVERSION_BT709"),
     tex_yv12_jpeg |-> TexOf("SDL_PIXELFORMAT_YV12", "SDL_YUV_CONVERSION_JPEG"),
     tex_yv12_bt601 |-> TexOf("SDL_PIXELFORMAT_YV12", "SDL_YUV_CONVERSION_BT601"),
     tex_yv12_bt709 |-> TexOf("SDL_PIXELFORMAT_YV12", "SDL_YUV_CONVERSION_BT709"),
     tex_iyuv_jpeg |-> TexOf("SDL_PIXELFORMAT_IYUV", "SDL_YUV_CONVERSION_JPEG"),
     tex_iyuv_bt601 |-> TexOf("SDL_PIXELFORMAT_IYUV", "SDL_YUV_CONVERSION_BT601"),
     tex_iyuv_bt709 |-> TexOf("SDL_PIXELFORMAT_IYUV", "SDL_YUV_CONVERSION_BT709"),
     tex_nv12_jpeg |-> TexOf("SDL_PIXELFORMAT_NV12", "SDL_YUV_CONVERSION_JPEG"),
     tex_nv12_bt601 |-> TexOf("SDL_PIXELFORMAT_NV12", "SDL_YUV_CONVERSION_BT601"),
     tex_nv12_bt709 |-> TexOf("SDL_PIXELFORMAT_NV12", "SDL_YUV_CONVERSION_BT709"),
     tex_nv21_jpeg |-> TexOf("SDL_PIXELFORMAT_NV21", "SDL_YUV_CONVERSION_JPEG"),
     tex_nv21_bt601 |-> TexOf("SDL_PIXELFORMAT_NV21", "SDL_YUV_CONVERSION_BT601"),
     tex_nv21_bt709 |-> TexOf("SDL_PIXELFORMAT_NV21", "SDL_YUV_CONVERSION_BT709")]

\* texture->driverdata and texture->format of each texture pointer.
TextureData(texture) == TextureTable[texture]

\* Error codes glGetError can report (GL_TranslateError).
GLErrorSet == {"GL_INVALID_VALUE", "GL_INVALID_OPERATION"}
GL_NO_ERROR == "GL_NO_ERROR"

\* --------------------------------------------------------------- commands
\* SDL_RenderCommand: the tag and the members of the data union a handler reads.
\* first is data.draw.first in points, count is data.draw.count.
Cmd(command, rect, enabled, color, blend, texture) ==
    [command |-> command, rect |-> rect, enabled |-> enabled, color |-> color,
     blend |-> blend, texture |-> texture, first |-> 0, count |-> 0]

CmdSetDrawColor == Cmd("SDL_RENDERCMD_SETDRAWCOLOR", RectFull, FALSE, Red, "SDL_BLENDMODE_NONE", NULL)
CmdNoOp == Cmd("SDL_RENDERCMD_NO_OP", RectFull, FALSE, Red, "SDL_BLENDMODE_NONE", NULL)
CmdSetViewport(rect) == Cmd("SDL_RENDERCMD_SETVIEWPORT", rect, FALSE, Red, "SDL_BLENDMODE_NONE", NULL)
CmdSetClipRect(enabled, rect) == Cmd("SDL_RENDERCMD_SETCLIPRECT", rect, enabled, Red, "SDL_BLENDMODE_NONE", NULL)
CmdClear(color) == Cmd("SDL_RENDERCMD_CLEAR", RectFull, FALSE, color, "SDL_BLENDMODE_NONE", NULL)
\* A draw over the first vertices of the buffer: one point, one line, one rect.
CmdDraw(command, color, blend) ==
    [Cmd(command, RectFull, FALSE, color, blend, NULL)
        EXCEPT !.count = IF command = "SDL_RENDERCMD_DRAW_LINES" THEN 2 ELSE 1]
\* A DrawLines over count points from point first on.
CmdLines(first, count) ==
    [Cmd("SDL_RENDERCMD_DRAW_LINES", RectFull, FALSE, Blue, "SDL_BLENDMODE_BLEND", NULL)
        EXCEPT !.first = first, !.count = count]
CmdCopy(command, color, blend, texture) == Cmd(command, RectFull, FALSE, color, blend, texture)

DrawCommands == {"SDL_RENDERCMD_DRAW_POINTS", "SDL_RENDERCMD_DRAW_LINES", "SDL_RENDERCMD_FILL_RECTS"}
CopyCommands == {"SDL_RENDERCMD_COPY", "SDL_RENDERCMD_COPY_EX"}

Commands ==
    {CmdSetDrawColor, CmdNoOp}
    \cup {CmdSetViewport(r) : r \in RectSet}
    \cup {CmdSetClipRect(e, r) : e \in BOOLEAN, r \in RectSet}
    \cup {CmdClear(c) : c \in ColorSet}
    \cup {CmdDraw(k, c, b) : k \in DrawCommands, c \in ColorSet, b \in BlendSet}
    \cup {CmdCopy(k, c, b, t) : k \in CopyCommands, c \in ColorSet, b \in BlendSet, t \in TextureSet}

\* One command of every type: the lists of the list-order specification.
OrderCommands ==
    {CmdSetDrawColor, CmdNoOp, CmdSetViewport(RectSmall), CmdSetClipRect(TRUE, RectSmall),
     CmdClear(Blue)}
    \cup {CmdDraw(k, Blue, "SDL_BLENDMODE_BLEND") : k \in DrawCommands}
    \cup {CmdCopy(k, Blue, "SDL_BLENDMODE_BLEND", "texA") : k \in CopyCommands}

\* ------------------------------------------------------------------ state
VARIABLES
    data,             \* GL_RenderData: the fields fixed at creation
    renderer,         \* the SDL_Renderer fields a run reads
    current_context,  \* SDL_GL_GetCurrentContext()
    st,               \* the locals of GL_RunCommandQueue
    gl,               \* the OpenGL state of the renderer's context
    errs,             \* the error state
    pc,               \* "idle", "run" (inside the loop), "returned"
    ret,              \* the last result of GL_RunCommandQueue
    n,                \* commands executed so far in this run
    last,             \* the command executed last in this run
    calls,            \* the calls of the last step (run start or command)
    hist,             \* history of the runs
    queue,            \* the command list of the run (list specification)
    node,             \* the list pointer cmd: the index of the current node, 0 for NULL
    log,              \* per backend call of the run, the index of its command
    tex,              \* the SDL_Texture of the last texture operation
    textures,         \* the SDL_Textures of the renderer, by slot
    window,           \* the color buffer of the window, by pixel
    api               \* the last operation other than a run: name, argument, result

vars == <<data, renderer, current_context, st, gl, errs, pc, ret, n, last, calls,
          hist, queue, node, log, tex, textures, window, api>>

\* ------------------------------------------------------------ backend calls
Call(f, a) == [f |-> f, a |-> a]

\* ((a << 24) | (r << 16) | (g << 8) | b): the Uint32 as its four bytes, the most
\* significant first (the word itself is beyond TLC's integers).
PackColor(c) == <<c.a % 256, c.r % 256, c.g % 256, c.b % 256>>

\* The four floats byte * inv255f of a glColor4f / glClearColor call, kept as the bytes.
ColorArgs(r, g, b, a) == [r |-> r, g |-> g, b |-> b, a |-> a]

\* ----------------------------------------------------- the OpenGL state
\* The state of the context after GL_CreateRenderer: the API's defaults.
NoClear == [done |-> FALSE, scissored |-> FALSE, color |-> ColorArgs(0, 0, 0, 0)]
NoPrim == [mode |-> "none", textured |-> FALSE, color |-> ColorArgs(0, 0, 0, 0), blend |-> FALSE]
GLInit ==
    [clear_color |-> ColorArgs(0, 0, 0, 0), color |-> ColorArgs(255, 255, 255, 255),
     blend |-> FALSE, blend_func |-> "default", blend_equation |-> "default",
     program |-> "none", texturing |-> FALSE,
     active_texture |-> "GL_TEXTURE0_ARB",
     bound |-> [u \in {"GL_TEXTURE0_ARB", "GL_TEXTURE1_ARB", "GL_TEXTURE2_ARB"} |-> 0],
     scissor_test |-> FALSE,
     scissor_box |-> [x |-> 0, y |-> 0, w |-> DrawableW, h |-> DrawableH],
     viewport |-> [x |-> 0, y |-> 0, w |-> DrawableW, h |-> DrawableH],
     matrix_mode |-> "GL_MODELVIEW", projection |-> <<>>, modelview |-> <<>>,
     stack |-> <<>>, clear |-> NoClear, prim |-> NoPrim,
     textures |-> {}, framebuffers |-> {}, framebuffer |-> 0]

\* A matrix is the sequence of transforms multiplied onto the identity.
MulMatrix(g, t) ==
    IF g.matrix_mode = "GL_PROJECTION"
    THEN [g EXCEPT !.projection = Append(@, t)]
    ELSE [g EXCEPT !.modelview = Append(@, t)]

SetCap(g, cap, on) ==
    CASE cap = "GL_SCISSOR_TEST" -> [g EXCEPT !.scissor_test = on]
      [] cap = "GL_BLEND" -> [g EXCEPT !.blend = on]
      [] OTHER -> [g EXCEPT !.texturing = on]

\* What the primitive that starts now is drawn with.
PrimOf(g, mode) == [mode |-> mode, textured |-> g.texturing, color |-> g.color, blend |-> g.blend]

\* The effect of one backend call on the OpenGL state.
ApplyCall(g, c) ==
    CASE c.f = "glClearColor" -> [g EXCEPT !.clear_color = c.a]
      [] c.f = "glColor4f" -> [g EXCEPT !.color = c.a]
      [] c.f = "glEnable" -> SetCap(g, c.a, TRUE)
      [] c.f = "glDisable" -> SetCap(g, c.a, FALSE)
      [] c.f = "glBlendFuncSeparate" -> [g EXCEPT !.blend_func = c.a]
      [] c.f = "glBlendEquation" -> [g EXCEPT !.blend_equation = c.a]
      [] c.f = "GL_SelectShader" -> [g EXCEPT !.program = c.a]
      [] c.f = "glActiveTextureARB" -> [g EXCEPT !.active_texture = c.a]
      [] c.f = "glBindTexture" -> [g EXCEPT !.bound[g.active_texture] = c.a]
      [] c.f = "glScissor" -> [g EXCEPT !.scissor_box = c.a]
      [] c.f = "glViewport" -> [g EXCEPT !.viewport = c.a]
      [] c.f = "glMatrixMode" -> [g EXCEPT !.matrix_mode = c.a]
      [] c.f = "glLoadIdentity" ->
            IF g.matrix_mode = "GL_PROJECTION"
            THEN [g EXCEPT !.projection = <<>>]
            ELSE [g EXCEPT !.modelview = <<>>]
      [] c.f \in {"glOrtho", "glTranslatef", "glRotated"} -> MulMatrix(g, c)
      [] c.f = "glPushMatrix" -> [g EXCEPT !.stack = Append(@, g.modelview)]
      [] c.f = "glPopMatrix" ->
            IF Len(g.stack) = 0 THEN g
            ELSE [g EXCEPT !.modelview = g.stack[Len(g.stack)],
                           !.stack = SubSeq(@, 1, Len(@) - 1)]
      [] c.f = "glClear" ->
            [g EXCEPT !.clear = [done |-> TRUE, scissored |-> g.scissor_test,
                                 color |-> g.clear_color]]
      [] c.f = "glGenTextures" -> [g EXCEPT !.textures = @ \cup ({c.a} \ {0})]
      [] c.f = "glDeleteTextures" -> [g EXCEPT !.textures = @ \ {c.a}]
      [] c.f = "glGenFramebuffersEXT" -> [g EXCEPT !.framebuffers = @ \cup {c.a}]
      [] c.f = "glDeleteFramebuffersEXT" -> [g EXCEPT !.framebuffers = @ \ {c.a}]
      [] c.f = "glBindFramebufferEXT" -> [g EXCEPT !.framebuffer = c.a]
      [] c.f = "glBegin" -> [g EXCEPT !.prim = PrimOf(g, c.a)]
      [] c.f = "glRectf" -> [g EXCEPT !.prim = PrimOf(g, "GL_RECT")]
      [] OTHER -> g

RECURSIVE ApplyCalls(_, _)
ApplyCalls(g, cs) == IF Len(cs) = 0 THEN g ELSE ApplyCalls(ApplyCall(g, Head(cs)), Tail(cs))

\* The color buffer of the window: a color for every pixel, by its window
\* coordinates (the origin is the lower left corner).  A new buffer is taken
\* to hold transparent black.
Raster == (0..(DrawableW - 1)) \X (0..(DrawableH - 1))
NoPixels == [p \in Raster |-> ColorArgs(0, 0, 0, 0)]

InBox(p, box) ==
    /\ box.x <= p[1] /\ p[1] < box.x + box.w
    /\ box.y <= p[2] /\ p[2] < box.y + box.h

\* The extents of the projection: those of the last glOrtho, or of the identity.
Extents(g) ==
    IF Len(g.projection) = 0 THEN [l |-> -1, r |-> 1, b |-> -1, t |-> 1]
    ELSE g.projection[Len(g.projection)].a

\* Whether the center k + 1/2 of a pixel lies between the window coordinates of
\* v1 and v2, coordinates in halves, for a viewport from o of extent e and a
\* projection from near to far: the window coordinate of v is
\* o + (v/2 - near) * e / (far - near).
CenterBetween(k, v1, v2, o, e, near, far) ==
    LET d == far - near
        sign == IF d < 0 THEN -1 ELSE 1
        w1 == sign * (2 * d * o + (v1 - 2 * near) * e)
        w2 == sign * (2 * d * o + (v2 - 2 * near) * e)
        c == sign * (2 * k + 1) * d
        lo == IF w1 < w2 THEN w1 ELSE w2
        hi == IF w1 < w2 THEN w2 ELSE w1
    IN  lo <= c /\ c < hi

\* The pixels whose centers a glRectf between the points v[1] and v[2] covers,
\* inside the viewport and, with the scissor test, inside the scissor box.
RectPixels(g, v) ==
    LET ex == Extents(g)
    IN  {p \in Raster :
            /\ InBox(p, g.viewport)
            /\ (g.scissor_test => InBox(p, g.scissor_box))
            /\ CenterBetween(p[1], v[1].x, v[2].x, g.viewport.x, g.viewport.w, ex.l, ex.r)
            /\ CenterBetween(p[2], v[1].y, v[2].y, g.viewport.y, g.viewport.h, ex.b, ex.t)}

\* The color a fragment of the current color leaves in a pixel that held old:
\* the color itself, or with blending what the blend function makes of both.
Shade(g, old) ==
    IF g.blend
    THEN [src |-> g.color, dst |-> old, func |-> g.blend_func, equation |-> g.blend_equation]
    ELSE g.color

\* The effect of one backend call, made in state g, on the color buffer of the
\* window.
PaintCall(px, g, c) ==
    IF g.framebuffer # 0 THEN px
    ELSE CASE c.f = "glClear" ->
                [p \in Raster |-> IF g.scissor_test => InBox(p, g.scissor_box)
                                  THEN g.clear_color ELSE px[p]]
           [] c.f = "glRectf" ->
                [p \in Raster |-> IF p \in RectPixels(g, c.a) THEN Shade(g, px[p]) ELSE px[p]]
           [] OTHER -> px

RECURSIVE PaintCalls(_, _, _)
PaintCalls(px, g, cs) ==
    IF Len(cs) = 0 THEN px
    ELSE PaintCalls(PaintCall(px, g, Head(cs)), ApplyCall(g, Head(cs)), Tail(cs))

\* ------------------------------------------------- the executor's helpers
Res(s, cs) == [st |-> s, calls |-> cs]
NoCalls == <<>>

\* glViewport's y / glScissor's y: the target-dependent vertical flip.
FlipY(s, y, h) == IF s.istarget THEN y ELSE s.drawableh - y - h

\* The blend-state calls of SetDrawState for a blend mode that differs from the cache.
BlendCalls(blend) ==
    IF blend = "SDL_BLENDMODE_NONE"
    THEN <<Call("glDisable", "GL_BLEND")>>
    ELSE <<Call("glEnable", "GL_BLEND"), Call("glBlendFuncSeparate", blend),
           Call("glBlendEquation", blend)>>

\* A SetDrawState that reprograms the color for every command.
ColorAlwaysChanged(color, s) == TRUE

\* SetDrawState's test for reprogramming the color.
ColorChanged(color, s) == color # s.draw_color

SetDrawState(d, cmd, shader, s) ==
    LET color == PackColor(cmd.color)
        newcolor == ColorChanged(color, s)
        newblend == cmd.blend # s.blend
        newshader == d.shaders # NULL /\ shader # s.shader
        newtexturing == (cmd.texture # NULL) # s.texturing
        s1 == [s EXCEPT !.draw_color = IF newcolor THEN color ELSE @,
                        !.blend = IF newblend THEN cmd.blend ELSE @,
                        !.shader = IF newshader THEN shader ELSE @,
                        !.texturing = IF newtexturing
                                      THEN (IF cmd.texture = NULL THEN FALSE ELSE FALSE)
                                      ELSE @]
    IN  Res(s1,
            (IF newcolor
             THEN <<Call("glColor4f", ColorArgs(cmd.color.r, cmd.color.g, cmd.color.b, cmd.color.a))>>
             ELSE NoCalls)
            \o (IF newblend THEN BlendCalls(cmd.blend) ELSE NoCalls)
            \o (IF newshader THEN <<Call("GL_SelectShader", shader)>> ELSE NoCalls)
            \o (IF newtexturing
                THEN <<Call(IF cmd.texture = NULL THEN "glDisable" ELSE "glEnable", d.textype)>>
                ELSE NoCalls))

\* A SetCopyState that takes every two-plane texture for NV12.
CopyShaderNoNV21(d, texture) ==
    LET t == TextureData(texture)
        pick(yuv, nv12) == IF t.yuv THEN yuv ELSE nv12
    IN  IF d.shaders # NULL /\ (t.yuv \/ t.nv12)
        THEN CASE t.yuvmode = "SDL_YUV_CONVERSION_JPEG" -> pick("SHADER_YUV_JPEG", "SHADER_NV12_JPEG")
               [] t.yuvmode = "SDL_YUV_CONVERSION_BT601" -> pick("SHADER_YUV_BT601", "SHADER_NV12_BT601")
               [] t.yuvmode = "SDL_YUV_CONVERSION_BT709" -> pick("SHADER_YUV_BT709", "SHADER_NV12_BT709")
               [] OTHER -> "SHADER_RGB"
        ELSE "SHADER_RGB"

\* The shader SetCopyState selects for a texture.
CopyShader(d, texture) ==
    LET t == TextureData(texture)
        pick(yuv, nv12, nv21) ==
            IF t.yuv THEN yuv
            ELSE IF t.format = "SDL_PIXELFORMAT_NV12" THEN nv12 ELSE nv21
    IN  IF d.shaders # NULL /\ (t.yuv \/ t.nv12)
        THEN CASE t.yuvmode = "SDL_YUV_CONVERSION_JPEG" ->
                    pick("SHADER_YUV_JPEG", "SHADER_NV12_JPEG", "SHADER_NV21_JPEG")
               [] t.yuvmode = "SDL_YUV_CONVERSION_BT601" ->
                    pick("SHADER_YUV_BT601", "SHADER_NV12_BT601", "SHADER_NV21_BT601")
               [] t.yuvmode = "SDL_YUV_CONVERSION_BT709" ->
                    pick("SHADER_YUV_BT709", "SHADER_NV12_BT709", "SHADER_NV21_BT709")
               [] OTHER -> "SHADER_RGB"
        ELSE "SHADER_RGB"

\* The texture-bind calls of SetCopyState for a texture that differs from the cache.
BindCalls(d, texture) ==
    LET t == TextureData(texture)
    IN  (IF t.yuv
         THEN <<Call("glActiveTextureARB", "GL_TEXTURE2_ARB"), Call("glBindTexture", t.vtexture),
                Call("glActiveTextureARB", "GL_TEXTURE1_ARB"), Call("glBindTexture", t.utexture)>>
         ELSE NoCalls)
        \o (IF t.nv12
            THEN <<Call("glActiveTextureARB", "GL_TEXTURE1_ARB"), Call("glBindTexture", t.utexture)>>
            ELSE NoCalls)
        \o <<Call("glActiveTextureARB", "GL_TEXTURE0_ARB"), Call("glBindTexture", t.texture)>>

SetCopyState(d, cmd, s) ==
    LET drawn == SetDrawState(d, cmd, CopyShader(d, cmd.texture), s)
        newtexture == cmd.texture # drawn.st.bound_texture
    IN  Res([drawn.st EXCEPT !.bound_texture = IF newtexture THEN cmd.texture ELSE @],
            drawn.calls \o (IF newtexture THEN BindCalls(d, cmd.texture) ELSE NoCalls))

\* The projection calls shared by the run start and the SetViewport handler.
ViewportCalls(s, rend, vp) ==
    <<Call("glMatrixMode", "GL_PROJECTION"), Call("glLoadIdentity", NULL),
      Call("glViewport", [x |-> vp.x, y |-> FlipY(s, vp.y, vp.h), w |-> vp.w, h |-> vp.h])>>
    \o (IF vp.w # 0 /\ vp.h # 0
        THEN <<Call("glOrtho", [l |-> 0, r |-> rend.viewport.w,
                                b |-> IF s.istarget THEN 0 ELSE rend.viewport.h,
                                t |-> IF s.istarget THEN rend.viewport.h ELSE 0])>>
        ELSE NoCalls)
    \o <<Call("glMatrixMode", "GL_MODELVIEW")>>

\* A glScissor call that leaves out the vertical flip of a window's rectangle.
ScissorCallUnflipped(s, rect) ==
    Call("glScissor", [x |-> s.viewport.x + rect.x, y |-> s.viewport.y + rect.y,
                       w |-> rect.w, h |-> rect.h])

\* The glScissor call of the run start and of the SetClipRect handler.
ScissorCall(s, rect) ==
    Call("glScissor", [x |-> s.viewport.x + rect.x,
                       y |-> IF s.istarget THEN s.viewport.y + rect.y
                             ELSE s.drawableh - s.viewport.y - rect.y - rect.h,
                       w |-> rect.w, h |-> rect.h])

\* A cache that keeps the values the previous run ended with (static locals).
CacheKept ==
    [bound_texture |-> hist.ended.bound_texture, blend |-> hist.ended.blend,
     shader |-> hist.ended.shader]

\* The sentinels the cached texture, blend mode and shader start every run with.
CacheSentinels ==
    [bound_texture |-> NULL, blend |-> "SDL_BLENDMODE_INVALID", shader |-> "SHADER_INVALID"]

\* The locals of GL_RunCommandQueue as its declarations initialise them.
CacheInit(rend) ==
    LET color == PackColor([r |-> rend.r, g |-> rend.g, b |-> rend.b, a |-> rend.a])
        istarget == rend.target # NULL
    IN  [clipping_enabled |-> rend.clipping_enabled,
         viewport |-> rend.viewport,
         bound_texture |-> CacheSentinels.bound_texture,
         blend |-> CacheSentinels.blend,
         shader |-> CacheSentinels.shader,
         drawablew |-> IF istarget THEN 0 ELSE DrawableW,
         drawableh |-> IF istarget THEN 0 ELSE DrawableH,
         cliprect_enabled |-> rend.clipping_enabled,
         cliprect |-> rend.clip_rect,
         istarget |-> istarget,
         clear_color |-> color,
         draw_color |-> color,
         texturing |-> FALSE]

\* The calls GL_RunCommandQueue issues before it walks the list.
RunStartCalls(d, rend, s) ==
    <<Call("glClearColor", ColorArgs(rend.r, rend.g, rend.b, rend.a)),
      Call("glColor4f", ColorArgs(rend.r, rend.g, rend.b, rend.a))>>
    \o ViewportCalls(s, rend, s.viewport)
    \o <<Call("glLoadIdentity", NULL),
         Call(IF s.cliprect_enabled THEN "glEnable" ELSE "glDisable", "GL_SCISSOR_TEST"),
         Call("glDisable", d.textype),
         ScissorCall(s, s.cliprect)>>

\* --------------------------------------------------- the command handlers
RunSetViewport(s, rend, cmd) ==
    IF cmd.rect # s.viewport
    THEN LET s1 == [s EXCEPT !.viewport = cmd.rect]
         IN  Res(s1, ViewportCalls(s1, rend, s1.viewport))
    ELSE Res(s, NoCalls)

\* A SetClipRect handler that programs a changed rect also while clipping is off.
RunSetClipRectAnyway(s, cmd) ==
    LET changed == s.cliprect # cmd.rect
        toggled == s.cliprect_enabled # cmd.enabled
        s1 == [s EXCEPT !.cliprect_enabled = IF toggled THEN cmd.enabled ELSE @]
    IN  Res([s1 EXCEPT !.cliprect = IF changed THEN cmd.rect ELSE @],
            (IF toggled
             THEN <<Call(IF s1.cliprect_enabled THEN "glEnable" ELSE "glDisable", "GL_SCISSOR_TEST")>>
             ELSE NoCalls)
            \o (IF changed THEN <<ScissorCall(s1, cmd.rect)>> ELSE NoCalls))

RunSetClipRect(s, cmd) ==
    LET changed == s.cliprect # cmd.rect
        toggled == s.cliprect_enabled # cmd.enabled
        s1 == [s EXCEPT !.cliprect_enabled = IF toggled THEN cmd.enabled ELSE @]
        program == s1.cliprect_enabled /\ changed
    IN  Res([s1 EXCEPT !.cliprect = IF program THEN cmd.rect ELSE @],
            (IF toggled
             THEN <<Call(IF s1.cliprect_enabled THEN "glEnable" ELSE "glDisable", "GL_SCISSOR_TEST")>>
             ELSE NoCalls)
            \o (IF program THEN <<ScissorCall(s1, cmd.rect)>> ELSE NoCalls))

RunClear(s, cmd) ==
    LET color == PackColor(cmd.color)
        newcolor == color # s.clear_color
    IN  Res([s EXCEPT !.clear_color = IF newcolor THEN color ELSE @],
            (IF newcolor
             THEN <<Call("glClearColor", ColorArgs(cmd.color.r, cmd.color.g, cmd.color.b, cmd.color.a))>>
             ELSE NoCalls)
            \o (IF s.clipping_enabled THEN <<Call("glDisable", "GL_SCISSOR_TEST")>> ELSE NoCalls)
            \o <<Call("glClear", "GL_COLOR_BUFFER_BIT")>>
            \o (IF s.clipping_enabled THEN <<Call("glEnable", "GL_SCISSOR_TEST")>> ELSE NoCalls))

\* The point k points into the vertex buffer: past the vertices in use the
\* allocation holds whatever it held.
VertexAt(rend, k) ==
    IF k < Len(rend.vertex_data) THEN rend.vertex_data[k + 1]
    ELSE rend.slack[((k - Len(rend.vertex_data)) % 2) + 1]

\* glVertex2f for the points k, k + 1, ..., k + count - 1 of the buffer.
VertexCalls(rend, k, count) ==
    [i \in 1..count |-> Call("glVertex2f", VertexAt(rend, k + i - 1))]

\* The conversion of a GLfloat to int: truncation towards zero.
ToInt(v) == IF v >= 0 THEN (v \div 2) * 2 ELSE -(((-v) \div 2) * 2)

RunDrawPoints(d, rend, s, cmd) ==
    LET drawn == SetDrawState(d, cmd, "SHADER_SOLID", s)
    IN  Res(drawn.st,
            drawn.calls \o <<Call("glBegin", "GL_POINTS")>>
            \o VertexCalls(rend, cmd.first, cmd.count)
            \o <<Call("glEnd", NULL)>>)

\* The extra point of a line strip.  verts has been advanced past the count
\* points of the strip by the loop before it, so verts[0] is point
\* first + count and verts[(count-1)*2] is point first + 2*count - 1.
ExtraPointCalls(d, rend, cmd) ==
    LET p1 == VertexAt(rend, cmd.first + cmd.count)
        p2 == VertexAt(rend, cmd.first + 2 * cmd.count - 1)
        x1 == ToInt(p1.x)
        y1 == ToInt(p1.y)
        x2 == ToInt(p2.x)
        y2 == ToInt(p2.y)
    IN  IF d.macosx_or_win32
        THEN <<Call("glVertex2f", p2)>>
        ELSE (IF x1 > x2 THEN <<Call("glVertex2f", Pt(x1, y1))>>
              ELSE IF x2 > x1 THEN <<Call("glVertex2f", Pt(x2, y2))>>
              ELSE NoCalls)
             \o (IF y1 > y2 THEN <<Call("glVertex2f", Pt(x1, y1))>>
                 ELSE IF y2 > y1 THEN <<Call("glVertex2f", Pt(x2, y2))>>
                 ELSE NoCalls)

\* A DrawLines handler that closes a loop whenever the end points coincide.
RunDrawLinesAnyCount(d, rend, s, cmd) ==
    LET drawn == SetDrawState(d, cmd, "SHADER_SOLID", s)
    IN  Res(drawn.st,
            drawn.calls
            \o (IF VertexAt(rend, cmd.first) = VertexAt(rend, cmd.first + cmd.count - 1)
                THEN <<Call("glBegin", "GL_LINE_LOOP")>>
                     \o VertexCalls(rend, cmd.first, cmd.count - 1)
                     \o <<Call("glEnd", NULL)>>
                ELSE <<Call("glBegin", "GL_LINE_STRIP")>>
                     \o VertexCalls(rend, cmd.first, cmd.count)
                     \o <<Call("glEnd", NULL), Call("glBegin", "GL_POINTS")>>
                     \o ExtraPointCalls(d, rend, cmd)
                     \o <<Call("glEnd", NULL)>>))

RunDrawLines(d, rend, s, cmd) ==
    LET drawn == SetDrawState(d, cmd, "SHADER_SOLID", s)
        closed == /\ cmd.count > 2
                  /\ VertexAt(rend, cmd.first) = VertexAt(rend, cmd.first + cmd.count - 1)
    IN  Res(drawn.st,
            drawn.calls
            \o (IF closed
                THEN <<Call("glBegin", "GL_LINE_LOOP")>>
                     \o VertexCalls(rend, cmd.first, cmd.count - 1)
                     \o <<Call("glEnd", NULL)>>
                ELSE <<Call("glBegin", "GL_LINE_STRIP")>>
                     \o VertexCalls(rend, cmd.first, cmd.count)
                     \o <<Call("glEnd", NULL), Call("glBegin", "GL_POINTS")>>
                     \o ExtraPointCalls(d, rend, cmd)
                     \o <<Call("glEnd", NULL)>>))

\* glRectf over the two corner points of each of the count rects.
\* The GLfloats a Queue* function reserves for a command, counted from
\* data.draw.first: two for a point, four for a rect, 8 and 11 for the copies.
FloatsReserved(cmd) ==
    CASE cmd.command \in {"SDL_RENDERCMD_DRAW_POINTS", "SDL_RENDERCMD_DRAW_LINES"} ->
            0..(2 * cmd.count - 1)
      [] cmd.command = "SDL_RENDERCMD_FILL_RECTS" -> 0..(4 * cmd.count - 1)
      [] cmd.command = "SDL_RENDERCMD_COPY" -> 0..7
      [] cmd.command = "SDL_RENDERCMD_COPY_EX" -> 0..10
      [] OTHER -> {}

\* The GLfloats the handler of a command reads, counted from data.draw.first.
\* The loops advance verts; the extra point of a line strip is read through
\* the pointer the strip's loop has advanced by 2 * count.
FloatsRead(d, rend, cmd) ==
    LET count == cmd.count
        closed == /\ count > 2
                  /\ VertexAt(rend, cmd.first) = VertexAt(rend, cmd.first + count - 1)
        past == 2 * count
    IN  CASE cmd.command = "SDL_RENDERCMD_DRAW_POINTS" -> 0..(2 * count - 1)
          [] cmd.command = "SDL_RENDERCMD_DRAW_LINES" ->
                0..(2 * count - 1)
                \cup (IF closed THEN {}
                      ELSE {past + (count - 1) * 2, past + (count * 2) - 1}
                           \cup (IF d.macosx_or_win32 THEN {} ELSE {past, past + 1}))
          [] cmd.command = "SDL_RENDERCMD_FILL_RECTS" -> 0..(4 * count - 1)
          [] cmd.command = "SDL_RENDERCMD_COPY" -> 0..7
          [] cmd.command = "SDL_RENDERCMD_COPY_EX" -> 0..10
          [] OTHER -> {}

\* A FillRects handler that stops after the first rectangle of the command.
RunFillRectsFirstOnly(d, rend, s, cmd) ==
    LET drawn == SetDrawState(d, cmd, "SHADER_SOLID", s)
    IN  Res(drawn.st,
            drawn.calls
            \o <<Call("glRectf", <<VertexAt(rend, cmd.first), VertexAt(rend, cmd.first + 1)>>)>>)

RunFillRects(d, rend, s, cmd) ==
    LET drawn == SetDrawState(d, cmd, "SHADER_SOLID", s)
    IN  Res(drawn.st,
            drawn.calls
            \o [i \in 1..cmd.count |->
                    Call("glRectf", <<VertexAt(rend, cmd.first + 2 * (i - 1)),
                                      VertexAt(rend, cmd.first + 2 * (i - 1) + 1)>>)])

QuadCalls ==
    <<Call("glBegin", "GL_TRIANGLE_STRIP"),
      Call("glTexCoord2f", 0), Call("glVertex2f", 0), Call("glTexCoord2f", 1), Call("glVertex2f", 1),
      Call("glTexCoord2f", 2), Call("glVertex2f", 2), Call("glTexCoord2f", 3), Call("glVertex2f", 3),
      Call("glEnd", NULL)>>

RunCopy(d, s, cmd) ==
    LET copied == SetCopyState(d, cmd, s)
    IN  Res(copied.st, copied.calls \o QuadCalls)

\* A CopyEx that leaves its transform pushed.
RunCopyExNoPop(d, s, cmd) ==
    LET copied == SetCopyState(d, cmd, s)
    IN  Res(copied.st,
            copied.calls
            \o <<Call("glPushMatrix", NULL), Call("glTranslatef", 8), Call("glRotated", 10)>>
            \o QuadCalls)

RunCopyEx(d, s, cmd) ==
    LET copied == SetCopyState(d, cmd, s)
    IN  Res(copied.st,
            copied.calls
            \o <<Call("glPushMatrix", NULL), Call("glTranslatef", 8), Call("glRotated", 10)>>
            \o QuadCalls
            \o <<Call("glPopMatrix", NULL)>>)

\* The switch of GL_RunCommandQueue's loop: one command's effect on the locals
\* and the calls it issues, in order.
ExecCmd(d, rend, s, cmd) ==
    CASE cmd.command = "SDL_RENDERCMD_SETDRAWCOLOR" -> Res(s, NoCalls)
      [] cmd.command = "SDL_RENDERCMD_SETVIEWPORT" -> RunSetViewport(s, rend, cmd)
      [] cmd.command = "SDL_RENDERCMD_SETCLIPRECT" -> RunSetClipRect(s, cmd)
      [] cmd.command = "SDL_RENDERCMD_CLEAR" -> RunClear(s, cmd)
      [] cmd.command = "SDL_RENDERCMD_DRAW_POINTS" -> RunDrawPoints(d, rend, s, cmd)
      [] cmd.command = "SDL_RENDERCMD_DRAW_LINES" -> RunDrawLines(d, rend, s, cmd)
      [] cmd.command = "SDL_RENDERCMD_FILL_RECTS" -> RunFillRects(d, rend, s, cmd)
      [] cmd.command = "SDL_RENDERCMD_COPY" -> RunCopy(d, s, cmd)
      [] cmd.command = "SDL_RENDERCMD_COPY_EX" -> RunCopyEx(d, s, cmd)
      [] OTHER -> Res(s, NoCalls)

\* ------------------------------------------------------------ error state
\* The error state of a renderer: the context's pending error flags (what
\* glGetError reports), data->error_messages and the last SDL_SetError text.
ErrState(flags, messages, sdl) == [flags |-> flags, messages |-> messages, sdl |-> sdl]

\* A backend call raises error e: the flag is recorded, and in a context with the
\* debug callback registered GL_HandleDebugMessage appends the message unless
\* SDL_realloc fails.
GL_HandleDebugMessage(d, es, e, realloc_ok) ==
    IF e = GL_NO_ERROR THEN es
    ELSE [es EXCEPT !.flags = @ \cup {e},
                    !.messages = IF d.GL_ARB_debug_output_supported /\ realloc_ok
                                 THEN Append(@, e) ELSE @]

GL_ClearErrors(d, es) ==
    IF ~d.debug_enabled THEN es
    ELSE IF d.GL_ARB_debug_output_supported
         THEN [es EXCEPT !.messages = <<>>]
         ELSE [es EXCEPT !.flags = {}]

\* An end check that keeps the recorded messages after it has reported them.
GL_CheckAllErrorsKeeps(d, es, polled_last) ==
    IF ~d.debug_enabled THEN [ret |-> 0, es |-> es]
    ELSE IF d.GL_ARB_debug_output_supported
         THEN IF Len(es.messages) # 0
              THEN [ret |-> -1, es |-> [es EXCEPT !.sdl = es.messages[Len(es.messages)]]]
              ELSE [ret |-> 0, es |-> es]
         ELSE IF es.flags # {}
              THEN [ret |-> -1, es |-> [es EXCEPT !.flags = {}, !.sdl = polled_last]]
              ELSE [ret |-> 0, es |-> es]

\* An end check that calls glGetError once instead of until GL_NO_ERROR.
GL_CheckAllErrorsOnce(d, es, polled_last) ==
    IF ~d.debug_enabled THEN [ret |-> 0, es |-> es]
    ELSE IF d.GL_ARB_debug_output_supported
         THEN IF Len(es.messages) # 0
              THEN [ret |-> -1,
                    es |-> GL_ClearErrors(d, [es EXCEPT !.sdl = es.messages[Len(es.messages)]])]
              ELSE [ret |-> 0, es |-> es]
         ELSE IF es.flags # {}
              THEN [ret |-> -1, es |-> [es EXCEPT !.flags = @ \ {polled_last}, !.sdl = polled_last]]
              ELSE [ret |-> 0, es |-> es]

\* GL_CheckAllErrors: the result and the error state it leaves.  glGetError
\* hands out the pending flags in an order of the driver's choosing; polled_last
\* is the one the loop sees last, whose text is the SDL error that stays.
GL_CheckAllErrors(d, es, polled_last) ==
    IF ~d.debug_enabled THEN [ret |-> 0, es |-> es]
    ELSE IF d.GL_ARB_debug_output_supported
         THEN IF Len(es.messages) # 0
              THEN [ret |-> -1,
                    es |-> GL_ClearErrors(d, [es EXCEPT !.sdl = es.messages[Len(es.messages)]])]
              ELSE [ret |-> 0, es |-> es]
         ELSE IF es.flags # {}
              THEN [ret |-> -1, es |-> [es EXCEPT !.flags = {}, !.sdl = polled_last]]
              ELSE [ret |-> 0, es |-> es]

\* ------------------------------------------------------ initial states
NoCmd == Cmd("none", RectFull, FALSE, Red, "SDL_BLENDMODE_NONE", NULL)

\* GL_CreateRenderer's outcomes for the fields the executor reads.
DataSet ==
    {[context |-> "ctx", debug_enabled |-> dbg, GL_ARB_debug_output_supported |-> arb,
      shaders |-> sh, textype |-> "GL_TEXTURE_2D", macosx_or_win32 |-> mw \/ mac,
      macosx |-> mac, GL_EXT_framebuffer_object_supported |-> fbo,
      GL_ARB_texture_non_power_of_two_supported |-> npot,
      GL_ARB_texture_rectangle_supported |-> FALSE, framebuffers |-> <<>>] :
        dbg \in BOOLEAN, arb \in BOOLEAN, sh \in {NULL, "shaders"}, mw \in BOOLEAN,
        mac \in BOOLEAN, fbo \in BOOLEAN, npot \in BOOLEAN}

\* The capabilities of the renderers whose runs are followed: framebuffer
\* objects, which a render target needs, and textures of any size.
RunCaps(d) ==
    /\ d.GL_EXT_framebuffer_object_supported
    /\ d.GL_ARB_texture_non_power_of_two_supported

RendererSet ==
    {[r |-> c.r, g |-> c.g, b |-> c.b, a |-> c.a, viewport |-> vp, clip_rect |-> cr,
      clipping_enabled |-> ce, target |-> tg, vertex_data |-> VertsDefault,
      slack |-> <<Pt(5, 5), Pt(5, 5)>>] :
        c \in ColorSet, vp \in RectSet, cr \in RectSet, ce \in BOOLEAN, tg \in {NULL, "target"}}

RendererInit ==
    [r |-> 255, g |-> 0, b |-> 0, a |-> 255, viewport |-> RectFull, clip_rect |-> RectFull,
     clipping_enabled |-> FALSE, target |-> NULL, vertex_data |-> VertsDefault,
     slack |-> <<Pt(5, 5), Pt(5, 5)>>]

HistInit ==
    [activated |-> FALSE, drawn |-> FALSE, copied |-> FALSE, repeated |-> FALSE,
     raised |-> {}, raised_at |-> {},
     ended |-> [blend |-> "SDL_BLENDMODE_INVALID", shader |-> "SHADER_INVALID",
                bound_texture |-> NULL, ran |-> FALSE]]

\* The locals outside a run: they do not exist, and stand at their first values.
NoLocals == CacheInit(RendererInit)

\* No texture operation and no other operation has been called yet.
NoTexture == [format |-> "none", access |-> "none", w |-> 0, h |-> 0, driverdata |-> NullPtr]
NoApi == [f |-> "none", arg |-> NULL, ret |-> 0]

InitWith(d, flags) ==
    /\ hist = HistInit
    /\ data = d
    /\ renderer = RendererInit
    /\ current_context = d.context
    /\ st = NoLocals
    /\ gl = GLInit
    /\ errs = ErrState(flags, <<>>, NULL)
    /\ pc = "idle"
    /\ ret = 0
    /\ n = 0
    /\ last = NoCmd
    /\ calls = <<>>
    /\ queue = <<>>
    /\ node = 0
    /\ log = <<>>
    /\ tex = NoTexture
    /\ textures = <<>>
    /\ window = NoPixels
    /\ api = NoApi

\* Renderers of a context created without the debug flag and with framebuffer
\* objects, in a build for neither Mac OS X nor Windows; no call fails.
Init ==
    \E d \in DataSet :
        /\ ~d.debug_enabled /\ ~d.GL_ARB_debug_output_supported /\ ~d.macosx_or_win32
        /\ RunCaps(d)
        /\ InitWith(d, {})

\* ---------------------------------------------------------------- actions
Raisable == GLErrorSet \cup {GL_NO_ERROR}

\* Another renderer or the application makes its own context current.
ContextSwitch ==
    /\ pc # "run"
    /\ current_context = data.context
    /\ current_context' = "other"
    /\ UNCHANGED <<data, renderer, st, gl, errs, pc, ret, n, last, calls, hist,
                   queue, node, log, tex, textures, window, api>>

\* GL_RunCommandQueue up to its loop, called with the renderer fields rr:
\* GL_ActivateRenderer (SDL_GL_MakeCurrent succeeds iff makecurrent_ok), then the
\* state defaults.  One of the calls may raise error e.
Start(rr, makecurrent_ok, e, realloc_ok) ==
    /\ pc # "run"
    /\ (current_context = data.context => makecurrent_ok)
    /\ (realloc_ok \/ (data.GL_ARB_debug_output_supported /\ e # GL_NO_ERROR))
    /\ renderer' = rr
    /\ n' = 0
    /\ last' = NoCmd
    /\ IF current_context # data.context /\ ~makecurrent_ok
       THEN /\ pc' = "returned"
            /\ ret' = -1
            /\ calls' = <<>>
            /\ hist' = [hist EXCEPT !.activated = FALSE, !.drawn = FALSE, !.copied = FALSE,
                                    !.repeated = FALSE, !.raised = {}, !.raised_at = {}]
            /\ st' = NoLocals
            /\ UNCHANGED <<current_context, gl, errs>>
       ELSE LET s0 == CacheInit(rr)
                cs == RunStartCalls(data, rr, s0)
            IN  /\ current_context' = data.context
                /\ st' = s0
                /\ calls' = cs
                /\ gl' = ApplyCalls([gl EXCEPT !.clear = NoClear, !.prim = NoPrim], cs)
                /\ errs' = GL_HandleDebugMessage(data, GL_ClearErrors(data, errs), e, realloc_ok)
                /\ hist' = [hist EXCEPT !.activated = TRUE, !.drawn = FALSE, !.copied = FALSE,
                                        !.repeated = FALSE,
                                        !.raised = {e} \ {GL_NO_ERROR},
                                        !.raised_at = IF e = GL_NO_ERROR THEN {} ELSE {0}]
                /\ pc' = "run"
                /\ UNCHANGED ret
    /\ UNCHANGED data

\* One pass of the loop body for the node holding command c.
Step(c, e, realloc_ok) ==
    /\ pc = "run"
    /\ n < MaxCmds
    /\ (realloc_ok \/ (data.GL_ARB_debug_output_supported /\ e # GL_NO_ERROR))
    /\ LET r == ExecCmd(data, renderer, st, c)
       IN  /\ (Len(r.calls) = 0 => e = GL_NO_ERROR)
           /\ st' = r.st
           /\ calls' = r.calls
           /\ gl' = ApplyCalls(gl, r.calls)
           /\ errs' = GL_HandleDebugMessage(data, errs, e, realloc_ok)
    /\ n' = n + 1
    /\ last' = c
    /\ hist' = [hist EXCEPT !.drawn = @ \/ c.command \in DrawCommands \cup CopyCommands,
                            !.copied = @ \/ c.command \in CopyCommands,
                            !.repeated = (c = last),
                            !.raised = @ \cup ({e} \ {GL_NO_ERROR}),
                            !.raised_at = IF e = GL_NO_ERROR THEN @ ELSE @ \cup {n + 1}]
    /\ UNCHANGED <<data, renderer, current_context, pc, ret>>

\* The list is exhausted: return GL_CheckError("", renderer).
End(polled_last) ==
    /\ pc = "run"
    /\ (errs.flags # {} => polled_last \in errs.flags)
    /\ LET r == GL_CheckAllErrors(data, errs, polled_last)
       IN  /\ ret' = r.ret
           /\ errs' = r.es
    /\ pc' = "returned"
    /\ hist' = [hist EXCEPT !.ended = [blend |-> st.blend, shader |-> st.shader,
                                       bound_texture |-> st.bound_texture, ran |-> TRUE]]
    /\ st' = NoLocals
    /\ last' = NoCmd
    /\ calls' = <<>>
    /\ UNCHANGED <<data, renderer, current_context, gl, n>>

\* The first run of a renderer, over a command list whose nodes are read as the
\* loop reaches them.
RunStart ==
    \E rr \in RendererSet, ok \in BOOLEAN :
        /\ pc = "idle"
        /\ Start(rr, ok, GL_NO_ERROR, TRUE)
        /\ UNCHANGED <<queue, node, log, tex, textures, window, api>>

RunCmd ==
    \E c \in Commands :
        /\ Step(c, GL_NO_ERROR, TRUE)
        /\ UNCHANGED <<queue, node, log, tex, textures, window, api>>

RunEnd ==
    /\ End(GL_NO_ERROR)
    /\ UNCHANGED <<queue, node, log, tex, textures, window, api>>

Next == RunStart \/ RunCmd \/ RunEnd \/ ContextSwitch

Spec == Init /\ [][Next]_vars

\* ------------------------------------------- repeated runs of one renderer
\* The commands of the repeated-run specification: the draw state and the
\* texture of a draw, a clear and a clip change.
RerunCommands ==
    {CmdDraw("SDL_RENDERCMD_FILL_RECTS", Red, b) : b \in BlendSet}
    \cup {CmdCopy("SDL_RENDERCMD_COPY", Red, "SDL_BLENDMODE_BLEND", t) : t \in TextureSet}
    \cup {CmdClear(Blue), CmdSetClipRect(TRUE, RectSmall)}

\* The renderer fields of the repeated runs: every field takes two values, and
\* the viewport may have no extent.
RerunRenderers ==
    {[r |-> c.r, g |-> c.g, b |-> c.b, a |-> c.a, viewport |-> v[1], clip_rect |-> v[2],
      clipping_enabled |-> ce, target |-> v[3], vertex_data |-> VertsDefault,
      slack |-> <<Pt(5, 5), Pt(5, 5)>>] :
        c \in ColorSet, ce \in BOOLEAN,
        v \in {<<RectFull, RectSmall, NULL>>, <<RectSmall, RectFull, "target">>,
               <<RectEmpty, RectSmall, NULL>>}}

RerunStart ==
    \E rr \in RerunRenderers, ok \in BOOLEAN :
        /\ Start(rr, ok, GL_NO_ERROR, TRUE)
        /\ UNCHANGED <<queue, node, log, tex, textures, window, api>>

RerunCmd ==
    \E c \in RerunCommands :
        /\ Step(c, GL_NO_ERROR, TRUE)
        /\ UNCHANGED <<queue, node, log, tex, textures, window, api>>

NextRuns == RerunStart \/ RerunCmd \/ RunEnd \/ ContextSwitch

SpecRuns == Init /\ [][NextRuns]_vars

\* ------------------------------------------------- runs over a given list
\* The linked list handed to GL_RunCommandQueue: node i's next is node i + 1,
\* the last node's next is NULL (0).
Queues == UNION {[1..k -> OrderCommands] : k \in 0..MaxCmds}

FirstNode(q) == IF Len(q) = 0 THEN 0 ELSE 1

\* A loop that advances two nodes at a time.
NextNodeSkips(q, i) == IF i + 1 < Len(q) THEN i + 2 ELSE 0

\* cmd->next
NextNode(q, i) == IF i < Len(q) THEN i + 1 ELSE 0

\* A loop that also stops at the first pending backend error.
LoopGuardStopsOnError(c) == c # 0 /\ errs.flags = {}

\* while (cmd)
LoopGuard(c) == c # 0

\* The log of one pass of the loop body: the node's tag, then its calls.
LogOf(i, tag, cs) ==
    <<[node |-> i, f |-> tag]>> \o [k \in 1..Len(cs) |-> [node |-> i, f |-> cs[k].f]]

\* GL_RunCommandQueue called with the head of list q, up to its loop.
WalkStart(q, makecurrent_ok, e, realloc_ok) ==
    /\ pc = "idle"
    /\ Start(RendererInit, makecurrent_ok, e, realloc_ok)
    /\ queue' = q
    /\ node' = FirstNode(q)
    /\ log' = <<>>
    /\ UNCHANGED <<tex, textures, window, api>>

\* One pass of the loop: the body for the node cmd points to, then cmd = cmd->next.
WalkStep(e, realloc_ok) ==
    /\ LoopGuard(node)
    /\ Step(queue[node], e, realloc_ok)
    /\ node' = NextNode(queue, node)
    /\ log' = log \o LogOf(node, queue[node].command, calls')
    /\ UNCHANGED <<queue, tex, textures, window, api>>

\* The loop's exit and the return.
WalkEnd(polled_last) ==
    /\ ~LoopGuard(node)
    /\ End(polled_last)
    /\ UNCHANGED <<queue, node, log, tex, textures, window, api>>

ListStart == \E q \in Queues, ok \in BOOLEAN : WalkStart(q, ok, GL_NO_ERROR, TRUE)

ListStep == WalkStep(GL_NO_ERROR, TRUE)

ListEnd == WalkEnd(GL_NO_ERROR)

NextList == ListStart \/ ListStep \/ ListEnd \/ ContextSwitch

SpecList == Init /\ [][NextList]_vars

\* --------------------------------------- runs in which backend calls fail
\* The commands of the lists whose calls may fail: one that calls nothing, a
\* clear and a draw.
ErrCommands == {CmdNoOp, CmdClear(Blue), CmdDraw("SDL_RENDERCMD_FILL_RECTS", Blue, "SDL_BLENDMODE_BLEND")}

ErrQueues == UNION {[1..k -> ErrCommands] : k \in 0..MaxCmds}

\* Every kind of context, with or without an error flag left pending by the
\* application's own calls on the context.
ErrInit ==
    \E d \in DataSet, flags \in {{}, {"GL_INVALID_VALUE"}} :
        /\ d.GL_ARB_debug_output_supported => d.debug_enabled
        /\ d.shaders # NULL /\ ~d.macosx_or_win32
        /\ RunCaps(d)
        /\ InitWith(d, flags)

ErrStart ==
    \E q \in ErrQueues, ok \in BOOLEAN, e \in Raisable, ro \in BOOLEAN : WalkStart(q, ok, e, ro)

ErrStep == \E e \in Raisable, ro \in BOOLEAN : WalkStep(e, ro)

ErrEnd == \E lp \in Raisable : WalkEnd(lp)

NextErr == ErrStart \/ ErrStep \/ ErrEnd \/ ContextSwitch

SpecErr == ErrInit /\ [][NextErr]_vars

\* ------------------------------------------ runs that draw lines
\* The vertex buffers of the runs: every list of two to MaxVerts points.
VertexBuffers == UNION {[1..k -> PointSet] : k \in 2..MaxVerts}

\* The DrawLines commands over a buffer of len points: SDL_RenderDrawLines
\* queues none of fewer than two points.
LinesCommands(len) ==
    UNION {{CmdLines(f, c) : c \in 2..(len - f)} : f \in 0..(len - 2)}

\* Both kinds of build, with shaders.
LinesInit ==
    \E d \in DataSet :
        /\ ~d.debug_enabled /\ ~d.GL_ARB_debug_output_supported /\ d.shaders # NULL
        /\ RunCaps(d)
        /\ InitWith(d, {})

LinesStart ==
    \E vs \in VertexBuffers, sl \in SlackSet, ok \in BOOLEAN :
        /\ pc = "idle"
        /\ Start([RendererInit EXCEPT !.vertex_data = vs, !.slack = sl], ok, GL_NO_ERROR, TRUE)
        /\ UNCHANGED <<queue, node, log, tex, textures, window, api>>

LinesCmd ==
    \E c \in LinesCommands(Len(renderer.vertex_data)) :
        /\ Step(c, GL_NO_ERROR, TRUE)
        /\ UNCHANGED <<queue, node, log, tex, textures, window, api>>

NextLines == LinesStart \/ LinesCmd \/ RunEnd \/ ContextSwitch

SpecLines == LinesInit /\ [][NextLines]_vars

\* ------------------------------------- runs that copy every kind of texture
CopyTextures == DOMAIN TextureTable

CopyRunCommands ==
    {CmdCopy(k, Blue, "SDL_BLENDMODE_BLEND", t) : k \in CopyCommands, t \in CopyTextures}
    \cup {CmdDraw("SDL_RENDERCMD_FILL_RECTS", Blue, "SDL_BLENDMODE_BLEND")}

CopyRunStart ==
    \E ok \in BOOLEAN :
        /\ pc = "idle"
        /\ Start(RendererInit, ok, GL_NO_ERROR, TRUE)
        /\ UNCHANGED <<queue, node, log, tex, textures, window, api>>

CopyRunCmd ==
    \E c \in CopyRunCommands :
        /\ Step(c, GL_NO_ERROR, TRUE)
        /\ UNCHANGED <<queue, node, log, tex, textures, window, api>>

NextCopy == CopyRunStart \/ CopyRunCmd \/ RunEnd \/ ContextSwitch

SpecCopy == Init /\ [][NextCopy]_vars

\* ------------------------- copies with and without multitexture support
\* GL_CreateRenderer's outcomes with the detection of GL_ARB_multitexture:
\* glActiveTextureARB is loaded, and num_texture_units read, only with the
\* extension; the fields stay zero without it.
UnitsData ==
    {d @@ [GL_ARB_multitexture_supported |-> units > 0, num_texture_units |-> units] :
        d \in {dd \in DataSet : RunCaps(dd) /\ ~dd.debug_enabled
                                /\ ~dd.GL_ARB_debug_output_supported},
        units \in {0, 2, 4}}

\* Whether the renderer lists the format of a texture: the planar formats need
\* shaders and three texture units.
FormatListed(d, t) == (t.yuv \/ t.nv12) => (d.shaders # NULL /\ d.num_texture_units >= 3)

UnitsInit == \E d \in UnitsData : InitWith(d, {})

\* A command of the run: a copy of a texture whose format the renderer lists,
\* or a fill.
UnitsCmd ==
    \E c \in CopyRunCommands :
        /\ c.texture # NULL => FormatListed(data, TextureData(c.texture))
        /\ Step(c, GL_NO_ERROR, TRUE)
        /\ UNCHANGED <<queue, node, log, tex, textures, window, api>>

NextUnits == CopyRunStart \/ UnitsCmd \/ RunEnd

SpecUnits == UnitsInit /\ [][NextUnits]_vars

\* ------------------------------------------------------ texture creation
PixelFormats ==
    {"SDL_PIXELFORMAT_ARGB8888", "SDL_PIXELFORMAT_YV12", "SDL_PIXELFORMAT_IYUV",
     "SDL_PIXELFORMAT_NV12", "SDL_PIXELFORMAT_NV21", "SDL_PIXELFORMAT_UYVY",
     "SDL_PIXELFORMAT_RGB565"}

TextureAccess ==
    {"SDL_TEXTUREACCESS_STATIC", "SDL_TEXTUREACCESS_STREAMING", "SDL_TEXTUREACCESS_TARGET"}

\* The textures SDL hands to GL_CreateTexture: no driver data yet.  Every
\* width, and an even and an odd height.
Textures ==
    [format : PixelFormats, access : TextureAccess, w : 1..MaxTexSize,
     h : {MaxTexSize - 1, MaxTexSize}, driverdata : {NullPtr}]

\* The bytes of one pixel of the first plane.
SDL_BYTESPERPIXEL(format) ==
    CASE format = "SDL_PIXELFORMAT_ARGB8888" -> 4
      [] format \in {"SDL_PIXELFORMAT_UYVY", "SDL_PIXELFORMAT_RGB565"} -> 2
      [] OTHER -> 1

RECURSIVE ShiftUntil(_, _)
ShiftUntil(value, input) == IF value < input THEN ShiftUntil(2 * value, input) ELSE value

\* A power of two that is not the least one.
power_of_2Twice(input) == 2 * ShiftUntil(1, input)

power_of_2(input) == ShiftUntil(1, input)

\* convert_format: whether the pixel format is in the table, and its entry.
convert_format(d, pixel_format) ==
    CASE pixel_format = "SDL_PIXELFORMAT_ARGB8888" ->
            [ok |-> TRUE, internalFormat |-> "GL_RGBA8", format |-> "GL_BGRA",
             type |-> "GL_UNSIGNED_INT_8_8_8_8_REV"]
      [] pixel_format \in {"SDL_PIXELFORMAT_YV12", "SDL_PIXELFORMAT_IYUV",
                           "SDL_PIXELFORMAT_NV12", "SDL_PIXELFORMAT_NV21"} ->
            [ok |-> TRUE, internalFormat |-> "GL_LUMINANCE", format |-> "GL_LUMINANCE",
             type |-> "GL_UNSIGNED_BYTE"]
      [] pixel_format = "SDL_PIXELFORMAT_UYVY" /\ d.macosx ->
            [ok |-> TRUE, internalFormat |-> "GL_RGB8", format |-> "GL_YCBCR_422_APPLE",
             type |-> "GL_UNSIGNED_SHORT_8_8_APPLE"]
      [] OTHER -> [ok |-> FALSE, internalFormat |-> NULL, format |-> NULL, type |-> NULL]

\* GL_GetFBO: the entry of the framebuffer list for w by h, made if there is
\* none and SDL_malloc succeeds.  An entry is known by its FBO name; 0 is NULL.
GL_GetFBO(d, w, h, malloc_ok) ==
    LET found == {i \in 1..Len(d.framebuffers) :
                      d.framebuffers[i].w = w /\ d.framebuffers[i].h = h}
        first == CHOOSE i \in found : \A j \in found : i <= j
        made == [w |-> w, h |-> h, FBO |-> Len(d.framebuffers) + 1]
    IN  IF found # {}
        THEN [result |-> d.framebuffers[first].FBO, d |-> d, calls |-> <<>>]
        ELSE IF malloc_ok
             THEN [result |-> made.FBO,
                   d |-> [d EXCEPT !.framebuffers = <<made>> \o @],
                   calls |-> <<Call("SDL_malloc", [block |-> "GL_FBOList", ok |-> TRUE]),
                               Call("glGenFramebuffersEXT", made.FBO)>>]
             ELSE [result |-> 0, d |-> d,
                   calls |-> <<Call("SDL_malloc", [block |-> "GL_FBOList", ok |-> FALSE])>>]

\* A pixel buffer with room for the first plane only.
StreamingSizeFirstPlane(t, pitch) == t.h * pitch

\* A pixel buffer with room for one byte per sample of the U/V plane.
StreamingSizeOneChroma(t, pitch) ==
    t.h * pitch
    + (IF t.format \in {"SDL_PIXELFORMAT_YV12", "SDL_PIXELFORMAT_IYUV"}
       THEN 2 * ((t.h + 1) \div 2) * ((pitch + 1) \div 2) ELSE 0)
    + (IF t.format \in {"SDL_PIXELFORMAT_NV12", "SDL_PIXELFORMAT_NV21"}
       THEN ((t.h + 1) \div 2) * ((pitch + 1) \div 2) ELSE 0)

\* The size of the pixel buffer of a streaming texture of the given pitch.
StreamingSize(t, pitch) ==
    t.h * pitch
    + (IF t.format \in {"SDL_PIXELFORMAT_YV12", "SDL_PIXELFORMAT_IYUV"}
       THEN 2 * ((t.h + 1) \div 2) * ((pitch + 1) \div 2) ELSE 0)
    + (IF t.format \in {"SDL_PIXELFORMAT_NV12", "SDL_PIXELFORMAT_NV21"}
       THEN 2 * ((t.h + 1) \div 2) * ((pitch + 1) \div 2) ELSE 0)

\* What SDL_calloc(1, sizeof(GL_TextureData)) returns.
ZeroData ==
    [pitch |-> 0, pixels |-> NullPtr, fbo |-> 0, texture |-> 0, texw |-> <<0, 1>>,
     texh |-> <<0, 1>>, format |-> NULL, formattype |-> NULL, yuv |-> FALSE, nv12 |-> FALSE,
     utexture |-> 0, vtexture |-> 0]

\* The filter and wrap parameters of the texture bound.
ParameterCalls(d) ==
    <<Call("glTexParameteri", "GL_TEXTURE_MIN_FILTER"),
      Call("glTexParameteri", "GL_TEXTURE_MAG_FILTER")>>
    \o (IF d.textype # "GL_TEXTURE_RECTANGLE_ARB"
        THEN <<Call("glTexParameteri", "GL_TEXTURE_WRAP_S"),
               Call("glTexParameteri", "GL_TEXTURE_WRAP_T")>>
        ELSE <<>>)

TexImage(internalFormat, w, h, pixels) ==
    Call("glTexImage2D", [internalFormat |-> internalFormat, w |-> w, h |-> h,
                          pixels |-> pixels])

\* The image of the first plane, with the client storage of Mac OS X.
ImageCalls(d, t, fmt, dd, texture_w, texture_h) ==
    IF d.macosx
    THEN <<Call("glTexParameteri", "GL_TEXTURE_STORAGE_HINT_APPLE")>>
         \o (IF /\ t.access = "SDL_TEXTUREACCESS_STREAMING"
                /\ t.format = "SDL_PIXELFORMAT_ARGB8888"
                /\ t.w % 8 = 0
             THEN <<Call("glPixelStorei", "GL_UNPACK_CLIENT_STORAGE_APPLE"),
                    Call("glPixelStorei", "GL_UNPACK_ALIGNMENT"),
                    Call("glPixelStorei", "GL_UNPACK_ROW_LENGTH"),
                    TexImage(fmt.internalFormat, texture_w, texture_h, dd.pixels),
                    Call("glPixelStorei", "GL_UNPACK_CLIENT_STORAGE_APPLE")>>
             ELSE <<TexImage(fmt.internalFormat, texture_w, texture_h, NullPtr)>>)
    ELSE <<TexImage(fmt.internalFormat, texture_w, texture_h, NullPtr)>>

\* One chroma plane: the texture bound, its parameters and its image.
PlaneCalls(name, internalFormat, texture_w, texture_h) ==
    <<Call("glBindTexture", name),
      Call("glTexParameteri", "GL_TEXTURE_MIN_FILTER"),
      Call("glTexParameteri", "GL_TEXTURE_MAG_FILTER"),
      Call("glTexParameteri", "GL_TEXTURE_WRAP_S"),
      Call("glTexParameteri", "GL_TEXTURE_WRAP_T"),
      TexImage(internalFormat, (texture_w + 1) \div 2, (texture_h + 1) \div 2, NullPtr)>>

\* The outcome of GL_CreateTexture: the return value, the error state, the
\* texture, the renderer data and the calls made, host allocations included.
Created(r, es, t, dd, d, cs) ==
    [ret |-> r, es |-> es, texture |-> [t EXCEPT !.driverdata = dd], d |-> d, calls |-> cs]

\* A GL_CreateTexture that gives every multi-plane texture two more textures.
CreatePlanesAlwaysTwo(d, es, t, in, fmt, dd, cs, texture_w, texture_h) ==
    LET multi == t.format \in {"SDL_PIXELFORMAT_YV12", "SDL_PIXELFORMAT_IYUV",
                               "SDL_PIXELFORMAT_NV12", "SDL_PIXELFORMAT_NV21"}
        dd1 == IF multi THEN [dd EXCEPT !.yuv = TRUE, !.utexture = in.names[2], !.vtexture = in.names[3]] ELSE dd
        cs1 == IF multi
               THEN <<Call("glGenTextures", in.names[2]), Call("glGenTextures", in.names[3]),
                      Call("glEnable", d.textype)>>
                    \o PlaneCalls(in.names[2], fmt.internalFormat, texture_w, texture_h)
                    \o PlaneCalls(in.names[3], fmt.internalFormat, texture_w, texture_h)
                    \o <<Call("glDisable", d.textype)>>
               ELSE <<>>
        chk == GL_CheckAllErrors(d, es, in.e)
    IN  Created(chk.ret, chk.es, t, dd1, d, cs \o cs1)

\* GL_CreateTexture from the texture's own planes on, after glTexImage2D passed
\* its check.  glGenTextures hands out the names in.names.
CreatePlanes(d, es, t, in, fmt, dd, cs, texture_w, texture_h) ==
    LET yuv == t.format \in {"SDL_PIXELFORMAT_YV12", "SDL_PIXELFORMAT_IYUV"}
        nv12 == t.format \in {"SDL_PIXELFORMAT_NV12", "SDL_PIXELFORMAT_NV21"}
        dd1 == IF yuv THEN [dd EXCEPT !.yuv = TRUE, !.utexture = in.names[2], !.vtexture = in.names[3]]
               ELSE IF nv12 THEN [dd EXCEPT !.nv12 = TRUE, !.utexture = in.names[2]]
               ELSE dd
        cs1 == IF yuv
               THEN <<Call("glGenTextures", in.names[2]), Call("glGenTextures", in.names[3]),
                      Call("glEnable", d.textype)>>
                    \o PlaneCalls(in.names[2], fmt.internalFormat, texture_w, texture_h)
                    \o PlaneCalls(in.names[3], fmt.internalFormat, texture_w, texture_h)
                    \o <<Call("glDisable", d.textype)>>
               ELSE IF nv12
               THEN <<Call("glGenTextures", in.names[2]), Call("glEnable", d.textype)>>
                    \o PlaneCalls(in.names[2], "GL_LUMINANCE_ALPHA", texture_w, texture_h)
                    \o <<Call("glDisable", d.textype)>>
               ELSE <<>>
        es1 == IF in.at = "planes" /\ cs1 # <<>>
               THEN GL_HandleDebugMessage(d, es, in.e, in.realloc_ok) ELSE es
        chk == GL_CheckAllErrors(d, es1, in.e)
    IN  Created(chk.ret, chk.es, t, dd1, d, cs \o cs1)

\* GL_CreateTexture from glGenTextures on, with the driver data dd allocated.
\* A glGenTextures that raises an error generates nothing: the name stays 0.
CreateImage(d, es, t, in, fmt, dd, cs) ==
    LET es1 == GL_CheckAllErrors(d, es, in.e).es
        es2 == IF in.at = "glGenTextures"
               THEN GL_HandleDebugMessage(d, es1, in.e, in.realloc_ok) ELSE es1
        chk2 == GL_CheckAllErrors(d, es2, in.e)
        name == IF in.at = "glGenTextures" /\ in.e # GL_NO_ERROR THEN 0 ELSE in.names[1]
        cs2 == cs \o <<Call("glGenTextures", name)>>
        npot == d.GL_ARB_texture_non_power_of_two_supported
        rect == d.GL_ARB_texture_rectangle_supported
        texture_w == IF npot \/ rect THEN t.w ELSE power_of_2(t.w)
        texture_h == IF npot \/ rect THEN t.h ELSE power_of_2(t.h)
        dd3 == [dd EXCEPT !.texture = name,
                          !.texw = IF npot THEN <<1, 1>> ELSE IF rect THEN <<t.w, 1>>
                                   ELSE <<t.w, texture_w>>,
                          !.texh = IF npot THEN <<1, 1>> ELSE IF rect THEN <<t.h, 1>>
                                   ELSE <<t.h, texture_h>>,
                          !.format = fmt.format, !.formattype = fmt.type]
        cs3 == cs2 \o <<Call("glEnable", d.textype), Call("glBindTexture", name)>>
               \o ParameterCalls(d)
               \o ImageCalls(d, t, fmt, dd3, texture_w, texture_h)
               \o <<Call("glDisable", d.textype)>>
        es3 == IF in.at = "glTexImage2D"
               THEN GL_HandleDebugMessage(d, chk2.es, in.e, in.realloc_ok) ELSE chk2.es
        chk3 == GL_CheckAllErrors(d, es3, in.e)
    IN  IF chk2.ret < 0
        THEN Created(-1, chk2.es, t, NullPtr, d,
                     cs2 \o (IF dd.pixels # NullPtr THEN <<Call("SDL_free", "pixels")>> ELSE <<>>)
                     \o <<Call("SDL_free", "data")>>)
        ELSE IF chk3.ret < 0
             THEN Created(-1, chk3.es, t, dd3, d, cs3)
             ELSE CreatePlanes(d, chk3.es, t, in, fmt, dd3, cs3, texture_w, texture_h)

\* A GL_CreateTexture that allocates the driver data before it tests the
\* texture's access and format.
GL_CreateTextureAllocFirst(d, es0, t, in) ==
    LET es1 == GL_ClearErrors(d, es0)
        fmt == convert_format(d, t.format)
        got == <<Call("SDL_calloc", [block |-> "data", ok |-> TRUE])>>
    IN  IF ~in.data_ok
        THEN Created(-1, [es1 EXCEPT !.sdl = "Out of memory"], t, NullPtr, d,
                     <<Call("SDL_calloc", [block |-> "data", ok |-> FALSE])>>)
        ELSE IF /\ t.access = "SDL_TEXTUREACCESS_TARGET"
                /\ ~d.GL_EXT_framebuffer_object_supported
        THEN Created(-1, [es1 EXCEPT !.sdl = "Render targets not supported by OpenGL"],
                     t, ZeroData, d, got)
        ELSE IF ~fmt.ok
        THEN Created(-1, [es1 EXCEPT !.sdl = "Texture format not supported by OpenGL"],
                     t, ZeroData, d, got)
        ELSE CreateImage(d, es1, t, in, fmt, ZeroData, got)

\* GL_CreateTexture for the texture t.  The inputs in are the outcomes of the
\* host allocations, and the error e that the calls before the check named by
\* at raise.
GL_CreateTexture(d, es0, t, in) ==
    LET es1 == GL_ClearErrors(d, es0)
        fmt == convert_format(d, t.format)
        streaming == t.access = "SDL_TEXTUREACCESS_STREAMING"
        pitch == t.w * SDL_BYTESPERPIXEL(t.format)
        size == StreamingSize(t, pitch)
        got == <<Call("SDL_calloc", [block |-> "data", ok |-> TRUE])>>
        fbo == GL_GetFBO(d, t.w, t.h, in.fbo_ok)
        dd == IF streaming
              THEN [ZeroData EXCEPT !.pitch = pitch, !.pixels = [size |-> size]]
              ELSE IF t.access = "SDL_TEXTUREACCESS_TARGET"
                   THEN [ZeroData EXCEPT !.fbo = fbo.result]
                   ELSE ZeroData
    IN  IF /\ t.access = "SDL_TEXTUREACCESS_TARGET"
           /\ ~d.GL_EXT_framebuffer_object_supported
        THEN Created(-1, [es1 EXCEPT !.sdl = "Render targets not supported by OpenGL"],
                     t, NullPtr, d, <<>>)
        ELSE IF ~fmt.ok
        THEN Created(-1, [es1 EXCEPT !.sdl = "Texture format not supported by OpenGL"],
                     t, NullPtr, d, <<>>)
        ELSE IF ~in.data_ok
        THEN Created(-1, [es1 EXCEPT !.sdl = "Out of memory"], t, NullPtr, d,
                     <<Call("SDL_calloc", [block |-> "data", ok |-> FALSE])>>)
        ELSE IF streaming /\ ~in.pixels_ok
        THEN Created(-1, [es1 EXCEPT !.sdl = "Out of memory"], t, NullPtr, d,
                     got \o <<Call("SDL_calloc", [block |-> "pixels", size |-> size,
                                                  ok |-> FALSE]),
                              Call("SDL_free", "data")>>)
        ELSE IF streaming
        THEN CreateImage(d, es1, t, in, fmt, dd, 
                         got \o <<Call("SDL_calloc", [block |-> "pixels", size |-> size,
                                                      ok |-> TRUE])>>)
        ELSE IF t.access = "SDL_TEXTUREACCESS_TARGET"
        THEN CreateImage(fbo.d, es1, t, in, fmt, dd, got \o fbo.calls)
        ELSE CreateImage(d, es1, t, in, fmt, dd, got)

\* The outcomes of the host allocations and of the backend calls of one
\* GL_CreateTexture: at most one allocation fails, and an error is raised before
\* at most one of the checks.
CreateInput(failed, at, e) ==
    [data_ok |-> failed # "data", pixels_ok |-> failed # "pixels", fbo_ok |-> failed # "fbo",
     at |-> at, e |-> e, realloc_ok |-> TRUE, names |-> <<1, 2, 3>>]

CreateInputs ==
    {CreateInput(failed, "glGenTextures", GL_NO_ERROR) :
        failed \in {"none", "data", "pixels", "fbo"}}
    \cup {CreateInput(failed, at, e) :
            failed \in {"none", "fbo"}, at \in {"glGenTextures", "glTexImage2D", "planes"},
            e \in GLErrorSet}

\* renderer->CreateTexture for a texture that has no driver data, with any
\* context current: GL_ActivateRenderer's result is not looked at, and the
\* calls reach the renderer's own OpenGL state only if its context is current.
\* An allocation that the call does not make has no outcome to choose, and
\* without the debug flag, where no check looks at the errors, it makes no
\* difference which call raised one.
CreateTexture ==
    \E t \in Textures, in \in CreateInputs, makecurrent_ok \in BOOLEAN :
        /\ pc = "idle" /\ api.f = "none"
        /\ (current_context = data.context => makecurrent_ok)
        /\ (t.access # "SDL_TEXTUREACCESS_STREAMING" => in.pixels_ok)
        /\ (t.access # "SDL_TEXTUREACCESS_TARGET" => in.fbo_ok)
        /\ (~data.debug_enabled => in.at = "glGenTextures")
        /\ LET r == GL_CreateTexture(data, errs, t, in)
               cur == IF makecurrent_ok THEN data.context ELSE current_context
           IN  /\ current_context' = cur
               /\ data' = r.d
               /\ errs' = r.es
               /\ tex' = r.texture
               /\ textures' = <<r.texture>>
               /\ calls' = r.calls
               /\ gl' = IF cur = data.context THEN ApplyCalls(gl, r.calls) ELSE gl
               /\ api' = [f |-> "GL_CreateTexture", arg |-> t, ret |-> r.ret]
        /\ UNCHANGED <<renderer, st, pc, ret, n, last, hist, queue, node, log, window>>

\* Renderers of every capability, with and without the debug flag, whose
\* context has no debug output.
TextureInit ==
    \E d \in DataSet :
        /\ ~d.GL_ARB_debug_output_supported /\ d.shaders # NULL
        /\ InitWith(d, {})

NextTexture == CreateTexture \/ ContextSwitch

SpecTexture == TextureInit /\ [][NextTexture]_vars

\* ------------------------------------------------------- texture updates
\* The rectangles inside a texture.
RectsIn(t) ==
    {r \in [x : 0..(t.w - 1), y : 0..(t.h - 1), w : 1..t.w, h : 1..t.h] :
        r.x + r.w <= t.w /\ r.y + r.h <= t.h}

TexSubImage(rect, format, type, pixels) ==
    Call("glTexSubImage2D", [x |-> rect.x, y |-> rect.y, w |-> rect.w, h |-> rect.h,
                             format |-> format, type |-> type, pixels |-> pixels])

\* The half-resolution rectangle of a chroma plane.
ChromaRect(rect) ==
    [x |-> rect.x \div 2, y |-> rect.y \div 2, w |-> (rect.w + 1) \div 2,
     h |-> (rect.h + 1) \div 2]

\* A GL_UpdateTexture that takes the U plane first for every format.
ChromaFirstAlwaysU(t) == t.driverdata.utexture

\* The texture of the plane that follows the first plane in the buffer.
ChromaFirst(t) ==
    IF t.format = "SDL_PIXELFORMAT_YV12" THEN t.driverdata.vtexture
    ELSE t.driverdata.utexture

\* The texture of the plane after that.
ChromaSecond(t) ==
    IF t.format = "SDL_PIXELFORMAT_YV12" THEN t.driverdata.utexture
    ELSE t.driverdata.vtexture

\* The calls of GL_UpdateTexture for the texture t, the rectangle rect and a
\* buffer of the given pitch; pixels are named by their offset in the buffer.
UpdateCalls(d, t, rect, pitch) ==
    LET dd == t.driverdata
        texturebpp == SDL_BYTESPERPIXEL(t.format)
        second == rect.h * pitch
        third == second + ((rect.h + 1) \div 2) * ((pitch + 1) \div 2)
    IN  <<Call("glEnable", d.textype), Call("glBindTexture", dd.texture),
          Call("glPixelStorei", [pname |-> "GL_UNPACK_ALIGNMENT", param |-> 1]),
          Call("glPixelStorei", [pname |-> "GL_UNPACK_ROW_LENGTH",
                                 param |-> pitch \div texturebpp]),
          TexSubImage(rect, dd.format, dd.formattype, 0)>>
        \o (IF dd.yuv
            THEN <<Call("glPixelStorei", [pname |-> "GL_UNPACK_ROW_LENGTH",
                                          param |-> (pitch + 1) \div 2]),
                   Call("glBindTexture", ChromaFirst(t)),
                   TexSubImage(ChromaRect(rect), dd.format, dd.formattype, second),
                   Call("glBindTexture", ChromaSecond(t)),
                   TexSubImage(ChromaRect(rect), dd.format, dd.formattype, third)>>
            ELSE <<>>)
        \o (IF dd.nv12
            THEN <<Call("glPixelStorei", [pname |-> "GL_UNPACK_ROW_LENGTH",
                                          param |-> (pitch + 1) \div 2]),
                   Call("glBindTexture", dd.utexture),
                   TexSubImage(ChromaRect(rect), "GL_LUMINANCE_ALPHA", "GL_UNSIGNED_BYTE",
                               second)>>
            ELSE <<>>)
        \o <<Call("glDisable", d.textype)>>

\* GL_UpdateTexture: the calls, then GL_CheckError("glTexSubImage2D()"); one of
\* the calls may raise error e.
GL_UpdateTexture(d, es0, t, rect, pitch, e) ==
    LET es1 == GL_HandleDebugMessage(d, GL_ClearErrors(d, es0), e, TRUE)
        chk == GL_CheckAllErrors(d, es1, e)
    IN  [ret |-> chk.ret, es |-> chk.es, calls |-> UpdateCalls(d, t, rect, pitch)]

\* The textures that the updates are followed on: static and streaming ones of
\* the formats of the table.
UpdateTextures ==
    {t \in Textures : /\ t.access # "SDL_TEXTUREACCESS_TARGET"
                      /\ t.format \notin {"SDL_PIXELFORMAT_UYVY", "SDL_PIXELFORMAT_RGB565"}}

\* renderer->CreateTexture succeeds for one of the textures to update.
UpdateCreate ==
    \E t \in UpdateTextures :
        /\ pc = "idle" /\ api.f = "none"
        /\ LET r == GL_CreateTexture(data, errs, t,
                                     CreateInput("none", "glGenTextures", GL_NO_ERROR))
           IN  /\ data' = r.d
               /\ errs' = r.es
               /\ tex' = r.texture
               /\ textures' = <<r.texture>>
               /\ calls' = r.calls
               /\ gl' = ApplyCalls(gl, r.calls)
               /\ api' = [f |-> "GL_CreateTexture", arg |-> t, ret |-> r.ret]
        /\ UNCHANGED <<renderer, current_context, st, pc, ret, n, last, hist, queue, node, log, window>>

\* renderer->UpdateTexture for a rectangle of the texture and a buffer whose
\* rows are packed or padded by one byte.  The texture is left as it is, so the
\* first update shows what every update does.
UpdateTexture ==
    \E rect \in RectsIn(tex), pad \in {0, 1}, e \in Raisable :
        /\ pc = "idle" /\ api.f = "GL_CreateTexture" /\ api.ret = 0
        /\ LET pitch == rect.w * SDL_BYTESPERPIXEL(tex.format) + pad
               r == GL_UpdateTexture(data, errs, tex, rect, pitch, e)
           IN  /\ errs' = r.es
               /\ calls' = r.calls
               /\ gl' = ApplyCalls(gl, r.calls)
               /\ api' = [f |-> "GL_UpdateTexture", arg |-> [rect |-> rect, pitch |-> pitch],
                          ret |-> r.ret]
        /\ UNCHANGED <<data, renderer, current_context, st, pc, ret, n, last, hist, queue,
                       node, log, tex, textures, window>>

\* Renderers with textures of any size, with and without the debug flag.
UpdateInit ==
    \E d \in DataSet :
        /\ ~d.GL_ARB_debug_output_supported /\ ~d.macosx_or_win32 /\ d.shaders # NULL
        /\ RunCaps(d)
        /\ InitWith(d, {})

NextUpdate == UpdateCreate \/ UpdateTexture

SpecUpdate == UpdateInit /\ [][NextUpdate]_vars

\* ------------------------------------------------------ texture lifetime
MaxTextures == 2

\* A GL_SetRenderTarget that looks at the texture before the capability.
GL_SetRenderTargetNullFirst(d, es0, t, complete) ==
    LET es1 == GL_ClearErrors(d, es0)
    IN  IF t = NullPtr
        THEN [ret |-> 0, es |-> es1, calls |-> <<Call("glBindFramebufferEXT", 0)>>]
        ELSE [ret |-> -1, es |-> [es1 EXCEPT !.sdl = "Render targets not supported by OpenGL"],
              calls |-> <<>>]

\* GL_SetRenderTarget for the texture t, or for no texture (NullPtr);
\* glCheckFramebufferStatusEXT reports completeness iff complete.
GL_SetRenderTarget(d, es0, t, complete) ==
    LET es1 == GL_ClearErrors(d, es0)
        dd == t.driverdata
        bind == <<Call("glBindFramebufferEXT", dd.fbo),
                  Call("glFramebufferTexture2DEXT",
                       [attachment |-> "GL_COLOR_ATTACHMENT0_EXT", textarget |-> d.textype,
                        texture |-> dd.texture]),
                  Call("glCheckFramebufferStatusEXT", "GL_FRAMEBUFFER_EXT")>>
    IN  IF ~d.GL_EXT_framebuffer_object_supported
        THEN [ret |-> -1, es |-> [es1 EXCEPT !.sdl = "Render targets not supported by OpenGL"],
              calls |-> <<>>]
        ELSE IF t = NullPtr
        THEN [ret |-> 0, es |-> es1, calls |-> <<Call("glBindFramebufferEXT", 0)>>]
        ELSE IF ~complete
        THEN [ret |-> -1, es |-> [es1 EXCEPT !.sdl = "glFramebufferTexture2DEXT() failed"],
              calls |-> bind]
        ELSE [ret |-> 0, es |-> es1, calls |-> bind]

\* The calls that release what the driver data dd holds.  SDL_free of a null
\* pixel buffer releases nothing.
DestroyCalls(dd) ==
    (IF dd.texture # 0 THEN <<Call("glDeleteTextures", dd.texture)>> ELSE <<>>)
    \o (IF dd.yuv
        THEN <<Call("glDeleteTextures", dd.utexture), Call("glDeleteTextures", dd.vtexture)>>
        ELSE <<>>)
    \o (IF dd.pixels # NullPtr THEN <<Call("SDL_free", "pixels")>> ELSE <<>>)
    \o <<Call("SDL_free", "data")>>

\* A GL_DestroyTexture that releases the driver data without testing it.
GL_DestroyTextureNoTest(d, es0, t) ==
    [texture |-> [t EXCEPT !.driverdata = NullPtr], es |-> GL_ClearErrors(d, es0),
     calls |-> DestroyCalls(IF t.driverdata = NullPtr THEN ZeroData ELSE t.driverdata)]

\* GL_DestroyTexture: GL_ActivateRenderer, then nothing for a texture without
\* driver data, and else the releases.
GL_DestroyTexture(d, es0, t) ==
    LET es1 == GL_ClearErrors(d, es0)
    IN  IF t.driverdata = NullPtr
        THEN [texture |-> t, es |-> es1, calls |-> <<>>]
        ELSE [texture |-> [t EXCEPT !.driverdata = NullPtr], es |-> es1,
              calls |-> DestroyCalls(t.driverdata)]

\* The names glGenTextures hands out next: the least three that name no
\* texture of the context.
FreshNames(g) ==
    LET free == (1..(3 * MaxTextures + 3)) \ g.textures
        least(S) == CHOOSE x \in S : \A y \in S : x <= y
        n1 == least(free)
        n2 == least(free \ {n1})
        n3 == least(free \ {n1, n2})
    IN  <<n1, n2, n3>>

\* The textures whose lifetime is followed: plain, three-plane and two-plane
\* streaming textures, and plain render targets of two sizes.
LifeTextures ==
    {t \in Textures :
        /\ t.format \in {"SDL_PIXELFORMAT_ARGB8888", "SDL_PIXELFORMAT_YV12",
                         "SDL_PIXELFORMAT_NV12"}
        /\ t.access \in {"SDL_TEXTUREACCESS_STREAMING", "SDL_TEXTUREACCESS_TARGET"}
        /\ (t.access = "SDL_TEXTUREACCESS_TARGET" => t.format = "SDL_PIXELFORMAT_ARGB8888")
        /\ t.w \in {MaxTexSize - 1, MaxTexSize} /\ t.h = MaxTexSize
        /\ (t.access # "SDL_TEXTUREACCESS_TARGET" => t.w = MaxTexSize)}

\* renderer->CreateTexture for a new texture, kept in the free slot s.  The
\* SDL_malloc of GL_GetFBO may fail; no backend call raises an error.
LifeCreate ==
    \E s \in 1..MaxTextures, t \in LifeTextures, failed \in {"none", "fbo"} :
        /\ textures[s] = NoTexture
        /\ (t.access # "SDL_TEXTUREACCESS_TARGET" => failed = "none")
        /\ LET in == [CreateInput(failed, "glGenTextures", GL_NO_ERROR)
                          EXCEPT !.names = FreshNames(gl)]
               r == GL_CreateTexture(data, errs, t, in)
           IN  /\ data' = r.d
               /\ errs' = r.es
               /\ textures' = [textures EXCEPT ![s] = r.texture]
               /\ calls' = r.calls
               /\ gl' = ApplyCalls(gl, r.calls)
               /\ api' = [f |-> "GL_CreateTexture", arg |-> [texture |-> s], ret |-> r.ret]
        /\ UNCHANGED <<renderer, current_context, st, pc, ret, n, last, hist, queue, node, log,
                       tex, window>>

\* renderer->DestroyTexture for the texture in slot s, destroyed before or not.
LifeDestroy ==
    \E s \in 1..MaxTextures :
        /\ textures[s] # NoTexture
        /\ LET r == GL_DestroyTexture(data, errs, textures[s])
           IN  /\ errs' = r.es
               /\ textures' = [textures EXCEPT ![s] = r.texture]
               /\ calls' = r.calls
               /\ gl' = ApplyCalls(gl, r.calls)
               /\ api' = [f |-> "GL_DestroyTexture",
                          arg |-> [texture |-> s, null |-> textures[s].driverdata = NullPtr],
                          ret |-> 0]
        /\ UNCHANGED <<data, renderer, current_context, st, pc, ret, n, last, hist, queue,
                       node, log, tex, window>>

\* renderer->SetRenderTarget for no texture (slot 0) or for a live target
\* texture that has a framebuffer.
LifeSetRenderTarget ==
    \E s \in 0..MaxTextures, complete \in BOOLEAN :
        /\ s # 0 => /\ textures[s].access = "SDL_TEXTUREACCESS_TARGET"
                    /\ textures[s].driverdata # NullPtr
                    /\ textures[s].driverdata.fbo # 0
        /\ LET t == IF s = 0 THEN NullPtr ELSE textures[s]
               r == GL_SetRenderTarget(data, errs, t, complete)
           IN  /\ (complete \/ Len(r.calls) = 3)
               /\ errs' = r.es
               /\ calls' = r.calls
               /\ gl' = ApplyCalls(gl, r.calls)
               /\ api' = [f |-> "GL_SetRenderTarget",
                          arg |-> [texture |-> s, bound |-> gl.framebuffer], ret |-> r.ret]
        /\ UNCHANGED <<data, renderer, current_context, st, pc, ret, n, last, hist, queue,
                       node, log, tex, textures, window>>

\* Renderers with and without framebuffer objects, created without the debug
\* flag, and no texture yet.
LifeInit ==
    \E d \in DataSet :
        /\ ~d.debug_enabled /\ ~d.GL_ARB_debug_output_supported /\ ~d.macosx_or_win32
        /\ d.shaders # NULL /\ d.GL_ARB_texture_non_power_of_two_supported
        /\ hist = HistInit
        /\ data = d
        /\ renderer = RendererInit
        /\ current_context = d.context
        /\ st = NoLocals
        /\ gl = GLInit
        /\ errs = ErrState({}, <<>>, NULL)
        /\ pc = "idle"
        /\ ret = 0
        /\ n = 0
        /\ last = NoCmd
        /\ calls = <<>>
        /\ queue = <<>>
        /\ node = 0
        /\ log = <<>>
        /\ tex = NoTexture
        /\ textures = [s \in 1..MaxTextures |-> NoTexture]
        /\ window = NoPixels
        /\ api = NoApi

NextLife == LifeCreate \/ LifeDestroy \/ LifeSetRenderTarget

SpecLife == LifeInit /\ [][NextLife]_vars

\* ---------------------------------------------------- renderer lifetime
\* What SDL_calloc(1, sizeof(GL_RenderData)) returns.
ZeroRenderData ==
    [context |-> NULL, debug_enabled |-> FALSE, GL_ARB_debug_output_supported |-> FALSE,
     shaders |-> NULL, textype |-> NULL, macosx_or_win32 |-> FALSE, macosx |-> FALSE,
     GL_EXT_framebuffer_object_supported |-> FALSE,
     GL_ARB_texture_non_power_of_two_supported |-> FALSE,
     GL_ARB_texture_rectangle_supported |-> FALSE, framebuffers |-> <<>>]

\* The calls of GL_ClearErrors: glGetError where the flags are polled.
ClearErrorsCalls(d) ==
    IF d.debug_enabled /\ ~d.GL_ARB_debug_output_supported
    THEN <<Call("glGetError", NULL)>> ELSE <<>>

\* The calls of GL_ActivateRenderer with the context cur current.
ActivateCalls(d, cur, makecurrent_ok) ==
    IF cur # d.context
    THEN <<Call("SDL_GL_MakeCurrent", d.context)>>
         \o (IF makecurrent_ok THEN ClearErrorsCalls(d) ELSE <<>>)
    ELSE ClearErrorsCalls(d)

\* The framebuffer list walked from its head: each object deleted, its node freed.
RECURSIVE DeleteFramebuffers(_)
DeleteFramebuffers(list) ==
    IF list = <<>> THEN <<>>
    ELSE <<Call("glDeleteFramebuffersEXT", Head(list).FBO), Call("SDL_free", "GL_FBOList")>>
         \o DeleteFramebuffers(Tail(list))

\* A release of the framebuffers and the context that does not test the context.
DestroyContextCallsNoTest(d) ==
    DeleteFramebuffers(d.framebuffers) \o <<Call("SDL_GL_DeleteContext", d.context)>>

\* The release of the framebuffers and then the context, if there is a context.
DestroyContextCalls(d) ==
    IF d.context # NULL
    THEN DeleteFramebuffers(d.framebuffers) \o <<Call("SDL_GL_DeleteContext", d.context)>>
    ELSE <<>>

DestroyShaderCalls(d) ==
    IF d.shaders # NULL THEN <<Call("GL_DestroyShaderContext", d.shaders)>> ELSE <<>>

\* A GL_DestroyRenderer that releases the framebuffers before the shaders.
GL_DestroyRendererFramebuffersFirst(d, cur, makecurrent_ok) ==
    IF d = NullPtr THEN <<Call("SDL_free", "renderer")>>
    ELSE (IF d.context # NULL THEN ActivateCalls(d, cur, makecurrent_ok) ELSE <<>>)
         \o ClearErrorsCalls(d)
         \o (IF d.GL_ARB_debug_output_supported
             THEN <<Call("glDebugMessageCallbackARB", "next_error_callback")>> ELSE <<>>)
         \o (IF d.context # NULL THEN DeleteFramebuffers(d.framebuffers) ELSE <<>>)
         \o DestroyShaderCalls(d)
         \o (IF d.context # NULL THEN <<Call("SDL_GL_DeleteContext", d.context)>> ELSE <<>>)
         \o <<Call("SDL_free", "data"), Call("SDL_free", "renderer")>>

\* The calls of GL_DestroyRenderer for a renderer whose driver data is d
\* (NullPtr for none), with the context cur current.
GL_DestroyRenderer(d, cur, makecurrent_ok) ==
    IF d = NullPtr THEN <<Call("SDL_free", "renderer")>>
    ELSE (IF d.context # NULL THEN ActivateCalls(d, cur, makecurrent_ok) ELSE <<>>)
         \o ClearErrorsCalls(d)
         \o (IF d.GL_ARB_debug_output_supported
             THEN <<Call("glDebugMessageCallbackARB", "next_error_callback")>> ELSE <<>>)
         \o DestroyShaderCalls(d)
         \o DestroyContextCalls(d)
         \o <<Call("SDL_free", "data"), Call("SDL_free", "renderer")>>

\* The context current after the calls cs, made with cur current.
RECURSIVE CurrentAfter(_, _, _)
CurrentAfter(cur, cs, makecurrent_ok) ==
    IF cs = <<>> THEN cur
    ELSE CurrentAfter(CASE Head(cs).f = "SDL_GL_MakeCurrent" /\ makecurrent_ok -> Head(cs).a
                        [] Head(cs).f = "SDL_GL_DeleteContext" /\ Head(cs).a = cur -> NULL
                        [] OTHER -> cur,
                      Tail(cs), makecurrent_ok)

\* The points where GL_CreateRenderer can fail.
FailurePoints == {"window", "renderer", "data", "context", "makecurrent", "load"}

\* GL_CreateRenderer with the context cur current, failing at the point fail or
\* at none; d is what a complete creation leaves in the driver data, and
\* again_ok whether an SDL_GL_MakeCurrent made by GL_DestroyRenderer succeeds.
\* The result is the driver data of the renderer returned (NullPtr with ret
\* NULL), the calls and the context current afterwards.  A failed
\* SDL_GL_MakeCurrent leaves the current context as it was.
GL_CreateRenderer(fail, d, cur, again_ok) ==
    LET renderer_got == <<Call("SDL_calloc", [block |-> "renderer", ok |-> TRUE])>>
        data_got == renderer_got \o <<Call("SDL_calloc", [block |-> "data", ok |-> TRUE])>>
        context_got == data_got \o <<Call("SDL_GL_CreateContext", d.context)>>
        partial == [ZeroRenderData EXCEPT !.context = d.context]
        failed(cs, c) == [ret |-> NULL, d |-> NullPtr, calls |-> cs, cur |-> c]
        destroyed(cs, dd, c) ==
            LET ds == GL_DestroyRenderer(dd, c, again_ok)
            IN  failed(cs \o ds, CurrentAfter(c, ds, again_ok))
    IN  CASE fail = "window" -> failed(<<>>, cur)
          [] fail = "renderer" ->
                failed(<<Call("SDL_calloc", [block |-> "renderer", ok |-> FALSE])>>, cur)
          [] fail = "data" ->
                destroyed(renderer_got
                          \o <<Call("SDL_calloc", [block |-> "data", ok |-> FALSE])>>,
                          NullPtr, cur)
          [] fail = "context" ->
                destroyed(data_got \o <<Call("SDL_GL_CreateContext", NULL)>>,
                          ZeroRenderData, cur)
          [] fail = "makecurrent" ->
                destroyed(context_got \o <<Call("SDL_GL_MakeCurrent", d.context)>>,
                          partial, cur)
          [] fail = "load" ->
                destroyed(context_got \o <<Call("SDL_GL_MakeCurrent", d.context),
                                           Call("GL_LoadFunctions", -1)>>,
                          partial, d.context)
          [] OTHER ->
                [ret |-> "renderer", d |-> d,
                 calls |-> context_got \o <<Call("SDL_GL_MakeCurrent", d.context),
                                            Call("GL_LoadFunctions", 0)>>,
                 cur |-> d.context]

\* The driver data that a complete GL_CreateRenderer can leave: the debug
\* output extension is looked for only with the debug flag.
RendererData ==
    {d \in DataSet : /\ ~d.macosx_or_win32 /\ d.GL_ARB_texture_non_power_of_two_supported
                     /\ (d.GL_ARB_debug_output_supported => d.debug_enabled)}

\* GL_CreateRenderer for a window, with a context of the application current.
\* Only after a failed SDL_GL_MakeCurrent does GL_DestroyRenderer make another.
CreateRenderer ==
    \E fail \in FailurePoints \cup {"none"}, again_ok \in BOOLEAN :
        \E d \in IF fail = "none" THEN RendererData
                 ELSE {[ZeroRenderData EXCEPT !.context = "ctx"]} :
            /\ api.f = "none"
            /\ (again_ok \/ fail = "makecurrent")
            /\ LET r == GL_CreateRenderer(fail, d, current_context, again_ok)
               IN  /\ data' = r.d
                   /\ calls' = r.calls
                   /\ current_context' = r.cur
                   /\ api' = [f |-> "GL_CreateRenderer", arg |-> fail, ret |-> r.ret]
            /\ UNCHANGED <<renderer, st, gl, errs, pc, ret, n, last, hist, queue, node, log,
                           tex, textures, window>>

\* renderer->CreateTexture for a render target, while the context has fewer
\* than MaxTextures textures.
CreateTarget ==
    \E t \in Textures :
        /\ api.f \in {"GL_CreateRenderer", "GL_CreateTexture"}
        /\ data # NullPtr
        /\ current_context = data.context
        /\ Cardinality(gl.textures) < MaxTextures
        /\ t.access = "SDL_TEXTUREACCESS_TARGET" /\ t.format = "SDL_PIXELFORMAT_ARGB8888"
        /\ LET in == [CreateInput("none", "glGenTextures", GL_NO_ERROR)
                          EXCEPT !.names = FreshNames(gl)]
               r == GL_CreateTexture(data, errs, t, in)
           IN  /\ data' = r.d
               /\ errs' = r.es
               /\ tex' = r.texture
               /\ calls' = r.calls
               /\ gl' = ApplyCalls(gl, r.calls)
               /\ api' = [f |-> "GL_CreateTexture", arg |-> t, ret |-> r.ret]
        /\ UNCHANGED <<renderer, current_context, st, pc, ret, n, last, hist, queue, node, log,
                       textures, window>>

\* Another context becomes current while the renderer lives.
RendererContextSwitch ==
    /\ api.f \in {"GL_CreateRenderer", "GL_CreateTexture"}
    /\ data # NullPtr
    /\ current_context = data.context
    /\ current_context' = "other"
    /\ UNCHANGED <<data, renderer, st, gl, errs, pc, ret, n, last, calls, hist,
                   queue, node, log, tex, textures, window, api>>

\* renderer->DestroyRenderer for a renderer that GL_CreateRenderer returned.
DestroyRenderer ==
    \E makecurrent_ok \in BOOLEAN :
        /\ api.f \in {"GL_CreateRenderer", "GL_CreateTexture"}
        /\ data # NullPtr
        /\ (current_context = data.context => makecurrent_ok)
        /\ LET cs == GL_DestroyRenderer(data, current_context, makecurrent_ok)
               cur == CurrentAfter(current_context, cs, makecurrent_ok)
           IN  /\ calls' = cs
               /\ current_context' = cur
               /\ gl' = IF current_context = data.context \/ makecurrent_ok
                        THEN ApplyCalls(gl, cs) ELSE gl
               /\ errs' = IF current_context = data.context \/ makecurrent_ok
                          THEN GL_ClearErrors(data, errs) ELSE errs
               /\ api' = [f |-> "GL_DestroyRenderer", arg |-> data, ret |-> 0]
               /\ data' = NullPtr
        /\ UNCHANGED <<renderer, st, pc, ret, n, last, hist, queue, node, log, tex, textures, window>>

\* No renderer yet: no driver data, and a context of the application current.
NoRendererInit ==
    /\ hist = HistInit
    /\ data = NullPtr
    /\ renderer = RendererInit
    /\ current_context = "other"
    /\ st = NoLocals
    /\ gl = GLInit
    /\ errs = ErrState({}, <<>>, NULL)
    /\ pc = "idle"
    /\ ret = 0
    /\ n = 0
    /\ last = NoCmd
    /\ calls = <<>>
    /\ queue = <<>>
    /\ node = 0
    /\ log = <<>>
    /\ tex = NoTexture
    /\ textures = <<>>
    /\ window = NoPixels
    /\ api = NoApi

NextRenderer == CreateRenderer \/ CreateTarget \/ RendererContextSwitch \/ DestroyRenderer

SpecRenderer == NoRendererInit /\ [][NextRenderer]_vars

\* -------------------------------------------------------------- activation
\* A GL_ActivateRenderer that makes the context current without looking at
\* the current one.
GL_ActivateRendererAlways(d, es, cur, makecurrent_ok) ==
    IF ~makecurrent_ok
    THEN [ret |-> -1, es |-> es, cur |-> cur,
          calls |-> <<Call("SDL_GL_MakeCurrent", d.context)>>]
    ELSE [ret |-> 0, es |-> GL_ClearErrors(d, es), cur |-> d.context,
          calls |-> <<Call("SDL_GL_MakeCurrent", d.context)>> \o ClearErrorsCalls(d)]

\* GL_ActivateRenderer with the context cur current: SDL_GL_MakeCurrent if it
\* is not the renderer's, returning -1 if that fails, and then GL_ClearErrors.
GL_ActivateRenderer(d, es, cur, makecurrent_ok) ==
    IF cur # d.context /\ ~makecurrent_ok
    THEN [ret |-> -1, es |-> es, cur |-> cur, calls |-> ActivateCalls(d, cur, FALSE)]
    ELSE [ret |-> 0, es |-> GL_ClearErrors(d, es), cur |-> d.context,
          calls |-> ActivateCalls(d, cur, TRUE)]

\* An operation of the renderer reaches its GL_ActivateRenderer.
Activate ==
    \E makecurrent_ok \in BOOLEAN :
        /\ (current_context = data.context => makecurrent_ok)
        /\ LET r == GL_ActivateRenderer(data, errs, current_context, makecurrent_ok)
           IN  /\ errs' = r.es
               /\ current_context' = r.cur
               /\ calls' = r.calls
               /\ api' = [f |-> "GL_ActivateRenderer",
                          arg |-> [current |-> current_context,
                                   again |-> api.f = "GL_ActivateRenderer" /\ api.ret = 0],
                          ret |-> r.ret]
        /\ UNCHANGED <<data, renderer, st, gl, pc, ret, n, last, hist, queue, node, log, tex,
                       textures, window>>

\* Another renderer or the application makes its own context current.
OtherMakesCurrent ==
    /\ current_context = data.context
    /\ current_context' = "other"
    /\ calls' = <<>>
    /\ api' = [f |-> "SDL_GL_MakeCurrent", arg |-> "other", ret |-> 0]
    /\ UNCHANGED <<data, renderer, st, gl, errs, pc, ret, n, last, hist, queue, node, log,
                   tex, textures, window>>

\* Renderers of every capability, with either context current and with any
\* errors pending in the renderer's context.
ActivateInit ==
    \E d \in DataSet, flags \in SUBSET GLErrorSet, cur \in {"ctx", "other"} :
        /\ ~d.macosx_or_win32
        /\ (d.GL_ARB_debug_output_supported => d.debug_enabled)
        /\ hist = HistInit
        /\ data = d
        /\ renderer = RendererInit
        /\ current_context = cur
        /\ st = NoLocals
        /\ gl = GLInit
        /\ errs = ErrState(flags, <<>>, NULL)
        /\ pc = "idle"
        /\ ret = 0
        /\ n = 0
        /\ last = NoCmd
        /\ calls = <<>>
        /\ queue = <<>>
        /\ node = 0
        /\ log = <<>>
        /\ tex = NoTexture
        /\ textures = <<>>
        /\ window = NoPixels
        /\ api = NoApi

NextActivate == Activate \/ OtherMakesCurrent

SpecActivate == ActivateInit /\ [][NextActivate]_vars

\* ------------------------------------------------ runs that paint the window
\* What the application asks for: a clear, or the filling of some rectangles,
\* in a color and without blending.
PaintRects ==
    {[x |-> 0, y |-> 0, w |-> 2, h |-> 2], [x |-> 1, y |-> 1, w |-> 2, h |-> 1],
     [x |-> 2, y |-> 0, w |-> 2, h |-> 4], [x |-> 0, y |-> 3, w |-> 4, h |-> 1]}

PaintRequests ==
    {[clear |-> TRUE, color |-> c, rects |-> <<>>] : c \in ColorSet}
    \cup {[clear |-> FALSE, color |-> c, rects |-> <<r>>] : c \in ColorSet, r \in PaintRects}
    \cup {[clear |-> FALSE, color |-> Blue,
           rects |-> <<[x |-> 0, y |-> 0, w |-> 1, h |-> 1], [x |-> 3, y |-> 3, w |-> 1, h |-> 1]>>]}

\* GL_QueueFillRects: the vertices written for the rectangles, two points each.
RECURSIVE GL_QueueFillRects(_)
GL_QueueFillRects(rects) ==
    IF Len(rects) = 0 THEN <<>>
    ELSE <<Pt(2 * Head(rects).x, 2 * Head(rects).y),
           Pt(2 * (Head(rects).x + Head(rects).w), 2 * (Head(rects).y + Head(rects).h))>>
         \o GL_QueueFillRects(Tail(rects))

\* The command queued for a request when the vertex buffer holds the points
\* verts: data.draw.first is the place SDL_AllocateRenderVertices hands out,
\* the end of the vertices in use, and count the number of rectangles.
PaintCommand(req, verts) ==
    IF req.clear THEN CmdClear(req.color)
    ELSE [Cmd("SDL_RENDERCMD_FILL_RECTS", RectFull, FALSE, req.color, "SDL_BLENDMODE_NONE",
              NULL)
            EXCEPT !.first = Len(verts), !.count = Len(req.rects)]

\* The command list and the vertex buffer that a sequence of requests leaves.
RECURSIVE Queued(_, _, _)
Queued(reqs, q, verts) ==
    IF Len(reqs) = 0 THEN [queue |-> q, vertex_data |-> verts]
    ELSE Queued(Tail(reqs), Append(q, PaintCommand(Head(reqs), verts)),
                verts \o GL_QueueFillRects(Head(reqs).rects))

PaintLists == UNION {[1..k -> PaintRequests] : k \in 1..MaxCmds}

\* The viewports of the painted window: all of it, and a part off its origin.
PaintViewports ==
    {[x |-> 0, y |-> 0, w |-> DrawableW, h |-> DrawableH],
     [x |-> 1, y |-> 0, w |-> DrawableW - 1, h |-> DrawableH - 1]}

\* GL_RunCommandQueue called with the list queued for some requests, for a
\* window without clipping.
PaintStart ==
    \E reqs \in PaintLists, vp \in PaintViewports :
        LET queued == Queued(reqs, <<>>, <<>>)
        IN  /\ pc = "idle"
            /\ Start([RendererInit EXCEPT !.viewport = vp,
                                          !.vertex_data = queued.vertex_data],
                     TRUE, GL_NO_ERROR, TRUE)
            /\ queue' = queued.queue
            /\ node' = FirstNode(queued.queue)
            /\ log' = <<>>
            /\ window' = PaintCalls(window, gl, calls')
            /\ UNCHANGED <<tex, textures, api>>

\* One pass of the loop, and what its calls leave in the color buffer.
PaintStep ==
    /\ LoopGuard(node)
    /\ Step(queue[node], GL_NO_ERROR, TRUE)
    /\ node' = NextNode(queue, node)
    /\ log' = log \o LogOf(node, queue[node].command, calls')
    /\ window' = PaintCalls(window, gl, calls')
    /\ UNCHANGED <<queue, tex, textures, api>>

NextPaint == PaintStart \/ PaintStep \/ ListEnd

SpecPaint == Init /\ [][NextPaint]_vars

\* --------------------------------------------------------- reading pixels
\* The render target of the runs that read: its format and size stand for
\* renderer->target->format and what SDL_GetRendererOutputSize gives for it.
ReadTarget == [format |-> "SDL_PIXELFORMAT_ARGB8888", w |-> MaxTexSize, h |-> MaxTexSize]

\* SDL_GetRendererOutputSize: the size of the target, or of the window.
OutputSize(rend) ==
    IF rend.target # NULL THEN [w |-> ReadTarget.w, h |-> ReadTarget.h]
    ELSE [w |-> DrawableW, h |-> DrawableH]

\* What glReadPixels stores for the region from (x, y) of extent w, h: the rows
\* of the framebuffer from row y upwards, a pixel standing for its place.
ReadRows(x, y, w, h) == [j \in 1..h |-> [i \in 1..w |-> <<x + i - 1, y + j - 1>>]]

\* The loop that swaps the rows of the temporary buffer: dst runs up from the
\* first row and src down from the last.
RECURSIVE FlipLoop(_, _, _)
FlipLoop(buf, dst, rows) ==
    IF rows = 0 THEN buf
    ELSE LET src == Len(buf) + 1 - dst
         IN  FlipLoop([buf EXCEPT ![dst] = buf[src], ![src] = buf[dst]], dst + 1, rows - 1)

\* A read that leaves the rows as the backend stored them.
FlipRowsNever(rend, buf) == buf

\* The rows of the temporary buffer after the flip, made for the window only.
FlipRows(rend, buf) ==
    IF rend.target = NULL THEN FlipLoop(buf, 1, Len(buf) \div 2) ELSE buf

\* SDL_ConvertPixels row by row: a pixel of another format is the converted
\* pixel, one of the same format is copied.
ConvertPixels(src_format, dst_format, buf) ==
    [j \in 1..Len(buf) |->
        [i \in 1..Len(buf[j]) |->
            IF src_format = dst_format THEN buf[j][i]
            ELSE [format |-> dst_format, pixel |-> buf[j][i]]]]

\* GL_RenderReadPixels of rect into a buffer of format pixel_format.  in holds
\* the outcome of SDL_malloc, the error glReadPixels raises and the status of
\* SDL_ConvertPixels.
GL_RenderReadPixels(d, es0, rend, rect, pixel_format, in) ==
    LET es1 == GL_ClearErrors(d, es0)
        temp_format == IF rend.target # NULL THEN ReadTarget.format
                       ELSE "SDL_PIXELFORMAT_ARGB8888"
        fmt == convert_format(d, temp_format)
        temp_pitch == rect.w * SDL_BYTESPERPIXEL(temp_format)
        h == OutputSize(rend).h
        y == IF rend.target # NULL THEN rect.y ELSE (h - rect.y) - rect.h
        got == <<Call("SDL_malloc", [block |-> "temp_pixels", size |-> rect.h * temp_pitch,
                                     ok |-> TRUE])>>
        read == got
                \o <<Call("glPixelStorei", [pname |-> "GL_PACK_ALIGNMENT", param |-> 1]),
                     Call("glPixelStorei",
                          [pname |-> "GL_PACK_ROW_LENGTH",
                           param |-> temp_pitch \div SDL_BYTESPERPIXEL(temp_format)]),
                     Call("glReadPixels", [x |-> rect.x, y |-> y, w |-> rect.w, h |-> rect.h,
                                           format |-> fmt.format, type |-> fmt.type])>>
        chk == GL_CheckAllErrors(d, GL_HandleDebugMessage(d, es1, in.e, TRUE), in.e)
        temp_pixels == FlipRows(rend, ReadRows(rect.x, y, rect.w, rect.h))
        none == <<>>
    IN  IF ~fmt.ok
        THEN [ret |-> -1, es |-> [es1 EXCEPT !.sdl = "Texture format not supported by OpenGL"],
              calls |-> <<>>, pixels |-> none]
        ELSE IF rect.w = 0 \/ rect.h = 0
        THEN [ret |-> 0, es |-> es1, calls |-> <<>>, pixels |-> none]
        ELSE IF ~in.malloc_ok
        THEN [ret |-> -1, es |-> [es1 EXCEPT !.sdl = "Out of memory"],
              calls |-> <<Call("SDL_malloc", [block |-> "temp_pixels",
                                              size |-> rect.h * temp_pitch, ok |-> FALSE])>>,
              pixels |-> none]
        ELSE IF chk.ret < 0
        THEN [ret |-> -1, es |-> chk.es,
              calls |-> read \o <<Call("SDL_free", "temp_pixels")>>, pixels |-> none]
        ELSE [ret |-> in.status, es |-> chk.es,
              calls |-> read \o <<Call("SDL_free", "temp_pixels")>>,
              pixels |-> IF in.status = 0
                         THEN ConvertPixels(temp_format, pixel_format, temp_pixels)
                         ELSE none]

\* The rects inside the output, empty ones among them.
ReadRects(rend) ==
    LET size == OutputSize(rend)
    IN  {r \in [x : 0..(size.w - 1), y : 0..(size.h - 1), w : 0..size.w, h : 0..size.h] :
            r.x + r.w <= size.w /\ r.y + r.h <= size.h}

\* The outcomes of one read: at most one of its steps fails.
ReadInputs ==
    {[malloc_ok |-> TRUE, e |-> GL_NO_ERROR, status |-> 0],
     [malloc_ok |-> FALSE, e |-> GL_NO_ERROR, status |-> 0],
     [malloc_ok |-> TRUE, e |-> "GL_INVALID_OPERATION", status |-> 0],
     [malloc_ok |-> TRUE, e |-> GL_NO_ERROR, status |-> -1]}

\* renderer->RenderReadPixels with the renderer's context current; a behavior
\* holds one read, with or without a target set before it.
ReadPixels ==
    \E rect \in ReadRects(renderer), in \in ReadInputs,
       pixel_format \in {"SDL_PIXELFORMAT_ARGB8888", "SDL_PIXELFORMAT_RGB565"} :
        /\ pc = "idle" /\ api.f # "GL_RenderReadPixels"
        /\ (rect.w = 0 \/ rect.h = 0) => in = [malloc_ok |-> TRUE, e |-> GL_NO_ERROR, status |-> 0]
        /\ (pixel_format # "SDL_PIXELFORMAT_ARGB8888" => in.malloc_ok /\ in.e = GL_NO_ERROR)
        /\ LET r == GL_RenderReadPixels(data, errs, renderer, rect, pixel_format, in)
           IN  /\ errs' = r.es
               /\ calls' = r.calls
               /\ gl' = ApplyCalls(gl, r.calls)
               /\ api' = [f |-> "GL_RenderReadPixels",
                          arg |-> [rect |-> rect, pixel_format |-> pixel_format],
                          ret |-> r.ret, pixels |-> r.pixels]
        /\ UNCHANGED <<data, renderer, current_context, st, pc, ret, n, last, hist, queue,
                       node, log, tex, textures, window>>

\* SDL_SetRenderTarget's effect on the renderer: the target set or reset.
ReadSetTarget ==
    /\ pc = "idle" /\ api.f # "GL_RenderReadPixels"
    /\ renderer' = [renderer EXCEPT !.target = IF @ = NULL THEN "target" ELSE NULL]
    /\ api' = [f |-> "SDL_SetRenderTarget", arg |-> renderer'.target, ret |-> 0]
    /\ UNCHANGED <<data, current_context, st, gl, errs, pc, ret, n, last, calls, hist, queue,
                   node, log, tex, textures, window>>

ReadInit ==
    \E d \in DataSet :
        /\ RunCaps(d) /\ ~d.GL_ARB_debug_output_supported /\ d.shaders # NULL
        /\ InitWith(d, {})

NextRead == ReadPixels \/ ReadSetTarget

SpecRead == ReadInit /\ [][NextRead]_vars

\* ------------------------------------------------------------ blend modes
GL_INVALID_ENUM == "GL_INVALID_ENUM"

GetBlendFunc(factor) ==
    CASE factor = "SDL_BLENDFACTOR_ZERO" -> "GL_ZERO"
      [] factor = "SDL_BLENDFACTOR_ONE" -> "GL_ONE"
      [] factor = "SDL_BLENDFACTOR_SRC_COLOR" -> "GL_SRC_COLOR"
      [] factor = "SDL_BLENDFACTOR_ONE_MINUS_SRC_COLOR" -> "GL_ONE_MINUS_SRC_COLOR"
      [] factor = "SDL_BLENDFACTOR_SRC_ALPHA" -> "GL_SRC_ALPHA"
      [] factor = "SDL_BLENDFACTOR_ONE_MINUS_SRC_ALPHA" -> "GL_ONE_MINUS_SRC_ALPHA"
      [] factor = "SDL_BLENDFACTOR_DST_COLOR" -> "GL_DST_COLOR"
      [] factor = "SDL_BLENDFACTOR_ONE_MINUS_DST_COLOR" -> "GL_ONE_MINUS_DST_COLOR"
      [] factor = "SDL_BLENDFACTOR_DST_ALPHA" -> "GL_DST_ALPHA"
      [] factor = "SDL_BLENDFACTOR_ONE_MINUS_DST_ALPHA" -> "GL_ONE_MINUS_DST_ALPHA"
      [] OTHER -> GL_INVALID_ENUM

GetBlendEquation(operation) ==
    CASE operation = "SDL_BLENDOPERATION_ADD" -> "GL_FUNC_ADD"
      [] operation = "SDL_BLENDOPERATION_SUBTRACT" -> "GL_FUNC_SUBTRACT"
      [] operation = "SDL_BLENDOPERATION_REV_SUBTRACT" -> "GL_FUNC_REVERSE_SUBTRACT"
      [] OTHER -> GL_INVALID_ENUM

\* A GL_SupportsBlendMode that does not compare the two operations.
GL_SupportsBlendModeAnyOperations(blendMode) ==
    ~ \/ GetBlendFunc(blendMode.srcColorFactor) = GL_INVALID_ENUM
      \/ GetBlendFunc(blendMode.srcAlphaFactor) = GL_INVALID_ENUM
      \/ GetBlendEquation(blendMode.colorOperation) = GL_INVALID_ENUM
      \/ GetBlendFunc(blendMode.dstColorFactor) = GL_INVALID_ENUM
      \/ GetBlendFunc(blendMode.dstAlphaFactor) = GL_INVALID_ENUM
      \/ GetBlendEquation(blendMode.alphaOperation) = GL_INVALID_ENUM

\* GL_SupportsBlendMode for a blend mode given by what the six
\* SDL_GetBlendMode* getters return for it.
GL_SupportsBlendMode(blendMode) ==
    IF \/ GetBlendFunc(blendMode.srcColorFactor) = GL_INVALID_ENUM
       \/ GetBlendFunc(blendMode.srcAlphaFactor) = GL_INVALID_ENUM
       \/ GetBlendEquation(blendMode.colorOperation) = GL_INVALID_ENUM
       \/ GetBlendFunc(blendMode.dstColorFactor) = GL_INVALID_ENUM
       \/ GetBlendFunc(blendMode.dstAlphaFactor) = GL_INVALID_ENUM
       \/ GetBlendEquation(blendMode.alphaOperation) = GL_INVALID_ENUM
    THEN FALSE
    ELSE IF blendMode.colorOperation # blendMode.alphaOperation
         THEN FALSE
         ELSE TRUE

\* The values of SDL_BlendFactor, and one value that is none of them.
BlendFactors ==
    {"SDL_BLENDFACTOR_ZERO", "SDL_BLENDFACTOR_ONE", "SDL_BLENDFACTOR_SRC_COLOR",
     "SDL_BLENDFACTOR_ONE_MINUS_SRC_COLOR", "SDL_BLENDFACTOR_SRC_ALPHA",
     "SDL_BLENDFACTOR_ONE_MINUS_SRC_ALPHA", "SDL_BLENDFACTOR_DST_COLOR",
     "SDL_BLENDFACTOR_ONE_MINUS_DST_COLOR", "SDL_BLENDFACTOR_DST_ALPHA",
     "SDL_BLENDFACTOR_ONE_MINUS_DST_ALPHA", "0x0"}
\* The factors the other three positions are drawn from.
FewBlendFactors == {"SDL_BLENDFACTOR_ONE", "SDL_BLENDFACTOR_ONE_MINUS_SRC_ALPHA", "0x0"}
\* The values of SDL_BlendOperation, and one value that is none of them.
BlendOperations ==
    {"SDL_BLENDOPERATION_ADD", "SDL_BLENDOPERATION_SUBTRACT", "SDL_BLENDOPERATION_REV_SUBTRACT",
     "SDL_BLENDOPERATION_MINIMUM", "SDL_BLENDOPERATION_MAXIMUM", "0x0"}

BlendModes ==
    [srcColorFactor : BlendFactors, dstColorFactor : FewBlendFactors,
     colorOperation : BlendOperations, srcAlphaFactor : FewBlendFactors,
     dstAlphaFactor : FewBlendFactors, alphaOperation : BlendOperations]

\* renderer->SupportsBlendMode called for any blend mode.  It reads and writes
\* no state, so one call per behaviour shows every result it can give.
SupportsBlendMode ==
    \E blendMode \in BlendModes :
        /\ pc = "idle" /\ api.f = "none"
        /\ api' = [f |-> "GL_SupportsBlendMode", arg |-> blendMode,
                   ret |-> GL_SupportsBlendMode(blendMode)]
        /\ UNCHANGED <<data, renderer, current_context, st, gl, errs, pc, ret, n, last,
                       calls, hist, queue, node, log, tex, textures, window>>

NextBlend == SupportsBlendMode

SpecBlend == Init /\ [][NextBlend]_vars

\* ------------------------------------------------------------------ claims
DrawOrCopy == DrawCommands \cup CopyCommands
CommandTags == {c.command : c \in Commands}

\* A step of the loop: the state before has run n commands, the state after n + 1.
IsStep == pc = "run" /\ pc' = "run" /\ n' = n + 1

HasCall(cs, f) == \E i \in 1..Len(cs) : cs[i].f = f
HasCap(cs, cap) ==
    \E i \in 1..Len(cs) : cs[i].f \in {"glEnable", "glDisable"} /\ cs[i].a = cap
CountCalls(cs, f) == Cardinality({i \in 1..Len(cs) : cs[i].f = f})
CountCap(cs, cap) ==
    Cardinality({i \in 1..Len(cs) : cs[i].f \in {"glEnable", "glDisable"} /\ cs[i].a = cap})

\* The passes of the loop body recorded in the log, in the order they ran.
Marks == SelectSeq(log, LAMBDA x : x.f \in CommandTags)

\* C1: the loop runs the body once for every node of the list, in list order,
\* skipping and repeating none, and the calls of node i all come before the
\* calls of node i + 1; when the run returns, every node has been run.
C1_ListOrder ==
    /\ \A i \in 1..Len(Marks) : Marks[i].node = i /\ Marks[i].f = queue[i].command
    /\ \A i \in 1..(Len(log) - 1) : log[i].node <= log[i + 1].node
    /\ (pc = "run" => Len(Marks) = n)
    /\ (pc = "returned" /\ hist.activated => Len(Marks) = Len(queue))

C1_Witness ==
    /\ pc = "returned" /\ hist.activated
    /\ Len(queue) = MaxCmds
    /\ queue[1].command = "SDL_RENDERCMD_COPY"
    /\ queue[MaxCmds].command = "SDL_RENDERCMD_CLEAR"
    /\ Len(log) > Len(queue)

\* C2: a Clear issued while clipping is active (as the last SetClipRect, or the
\* run start, left it) clears with the scissor test disabled.
C2_ClearIgnoresClip ==
    (pc = "run" /\ last.command = "SDL_RENDERCMD_CLEAR" /\ st.cliprect_enabled)
        => ~gl.clear.scissored

\* C3: a Clear leaves the scissor-test enable flag as it found it.
C3_ClearRestoresScissor ==
    [][(IsStep /\ last'.command = "SDL_RENDERCMD_CLEAR")
          => gl'.scissor_test = gl.scissor_test]_vars

\* C4: the primitives of DrawPoints, DrawLines and FillRects are emitted with
\* texturing disabled.
C4_DrawsUntextured ==
    (pc = "run" /\ last.command \in DrawCommands) => ~gl.prim.textured

\* The shader a draw or copy command asks SetDrawState for.
ShaderOf(c) ==
    IF c.command \in CopyCommands THEN CopyShader(data, c.texture) ELSE "SHADER_SOLID"

\* C5: a draw or copy command that follows another issues a state-change call
\* for a field only when its value for the field differs from its predecessor's:
\* color, blend mode, shader, texturing flag, bound texture.
C5_Elision ==
    [][(IsStep /\ last.command \in DrawOrCopy /\ last'.command \in DrawOrCopy)
          => /\ HasCall(calls', "glColor4f") => last'.color # last.color
             /\ HasCap(calls', "GL_BLEND") => last'.blend # last.blend
             /\ HasCall(calls', "GL_SelectShader") => ShaderOf(last') # ShaderOf(last)
             /\ HasCap(calls', data.textype)
                    => ((last'.texture # NULL) # (last.texture # NULL))
             /\ HasCall(calls', "glBindTexture") => last'.texture # last.texture]_vars

\* The second of two consecutive FillRects commands with the same color and blend.
TwoFillRects == IsStep /\ last.command = "SDL_RENDERCMD_FILL_RECTS" /\ last' = last

\* renderer->r, g, b, a: the draw color the run start programs.
RendererColor == [r |-> renderer.r, g |-> renderer.g, b |-> renderer.b, a |-> renderer.a]

\* C6 as stated: two consecutive FillRects commands with identical color and
\* blend mode program the color exactly once and the blend mode exactly once
\* over the two commands.
C6_ExactlyOnce ==
    [][TwoFillRects
          => /\ CountCalls(calls \o calls', "glColor4f") = 1
             /\ CountCap(calls \o calls', "GL_BLEND") = 1]_vars

\* C6: over two consecutive FillRects commands with identical color and blend
\* mode the second programs neither color nor blend mode and the first programs
\* each at most once; when the pair opens the run the blend mode is programmed
\* exactly once, and the color exactly once unless it is the renderer's draw
\* color, which the run start has programmed already.
C6_AtMostOnce ==
    [][TwoFillRects
          => /\ CountCalls(calls', "glColor4f") = 0
             /\ CountCap(calls', "GL_BLEND") = 0
             /\ CountCalls(calls, "glColor4f") <= 1
             /\ CountCap(calls, "GL_BLEND") <= 1
             /\ n = 1 => /\ CountCap(calls, "GL_BLEND") = 1
                         /\ CountCalls(calls, "glColor4f") = 1 <=> last.color # RendererColor]_vars

C6_Witness ==
    /\ pc = "run" /\ n = 2 /\ hist.repeated
    /\ last.command = "SDL_RENDERCMD_FILL_RECTS"
    /\ last.color = RendererColor
    /\ gl.prim.mode = "GL_RECT"
    /\ gl.color = ColorArgs(renderer.r, renderer.g, renderer.b, renderer.a)
    /\ ~HasCall(calls, "glColor4f") /\ ~HasCap(calls, "GL_BLEND")

\* The state a run starts the list with, from the renderer's fields alone.
StartViewport ==
    [x |-> renderer.viewport.x,
     y |-> IF renderer.target # NULL THEN renderer.viewport.y
           ELSE DrawableH - renderer.viewport.y - renderer.viewport.h,
     w |-> renderer.viewport.w, h |-> renderer.viewport.h]
StartScissor ==
    [x |-> renderer.viewport.x + renderer.clip_rect.x,
     y |-> IF renderer.target # NULL THEN renderer.viewport.y + renderer.clip_rect.y
           ELSE DrawableH - renderer.viewport.y - renderer.clip_rect.y - renderer.clip_rect.h,
     w |-> renderer.clip_rect.w, h |-> renderer.clip_rect.h]
StartProjection ==
    IF renderer.viewport.w # 0 /\ renderer.viewport.h # 0
    THEN <<Call("glOrtho", [l |-> 0, r |-> renderer.viewport.w,
                            b |-> IF renderer.target # NULL THEN 0 ELSE renderer.viewport.h,
                            t |-> IF renderer.target # NULL THEN renderer.viewport.h ELSE 0])>>
    ELSE <<>>

\* An activated run that has executed no command: before the loop, or returned
\* from an empty list.
EmptyRun == hist.activated /\ n = 0 /\ pc \in {"run", "returned"}

\* C7: a run over an empty list draws and clears nothing, and leaves the clear
\* color, the scissor flag and box, the viewport and the two matrices at the
\* values the renderer's fields give, whatever the runs before left.
C7_EmptyRun ==
    EmptyRun
        => /\ ~HasCall(calls, "glBegin") /\ ~HasCall(calls, "glRectf") /\ ~HasCall(calls, "glClear")
           /\ gl.prim = NoPrim /\ ~gl.clear.done
           /\ pc = "run" => /\ CountCalls(calls, "glClearColor") = 1
                            /\ CountCalls(calls, "glScissor") = 1
                            /\ CountCalls(calls, "glViewport") = 1
                            /\ CountCap(calls, "GL_SCISSOR_TEST") = 1
                            /\ CountCalls(calls, "glLoadIdentity") = 2
           /\ gl.clear_color = ColorArgs(renderer.r, renderer.g, renderer.b, renderer.a)
           /\ gl.scissor_test = renderer.clipping_enabled
           /\ gl.scissor_box = StartScissor
           /\ gl.viewport = StartViewport
           /\ gl.projection = StartProjection
           /\ gl.modelview = <<>>
           /\ gl.matrix_mode = "GL_MODELVIEW"

C7_Witness ==
    /\ pc = "returned" /\ hist.activated /\ n = 0
    /\ hist.ended.ran
    /\ gl.blend /\ gl.bound["GL_TEXTURE0_ARB"] # 0
    /\ renderer.clipping_enabled /\ renderer.target = NULL
    /\ renderer.clip_rect = RectSmall
    /\ gl.scissor_box.y = 2
    /\ gl.clear_color = ColorArgs(0, 0, 255, 255)

\* C8: every run starts with the sentinels in the cached blend mode, shader and
\* bound texture, so the first draw or copy of a run programs its blend mode and,
\* with shaders, its shader, and the first copy binds its texture.
C8_CacheNotKept ==
    [][/\ (pc' = "run" /\ n' = 0)
            => /\ st'.blend = "SDL_BLENDMODE_INVALID"
               /\ st'.shader = "SHADER_INVALID"
               /\ st'.bound_texture = NULL
       /\ (IsStep /\ ~hist.drawn /\ last'.command \in DrawOrCopy)
            => /\ HasCap(calls', "GL_BLEND")
               /\ gl'.blend = (last'.blend # "SDL_BLENDMODE_NONE")
               /\ data.shaders # NULL
                    => HasCall(calls', "GL_SelectShader") /\ gl'.program = ShaderOf(last')
       /\ (IsStep /\ ~hist.copied /\ last'.command \in CopyCommands)
            => /\ HasCall(calls', "glBindTexture")
               /\ gl'.bound["GL_TEXTURE0_ARB"] = TextureData(last'.texture).texture]_vars

C8_Witness ==
    /\ pc = "run" /\ n = 1
    /\ last.command = "SDL_RENDERCMD_COPY"
    /\ hist.ended.ran
    /\ hist.ended.blend = last.blend
    /\ hist.ended.bound_texture = last.texture
    /\ data.shaders # NULL /\ hist.ended.shader = ShaderOf(last)
    /\ HasCap(calls, "GL_BLEND") /\ HasCall(calls, "GL_SelectShader")
    /\ HasCall(calls, "glBindTexture")

\* C9: an error raised by a command does not end the loop: the run returns only
\* after the last node, nothing is reported before the loop ends (the result and
\* the SDL error stay as they were), and the result is that of the one check at
\* the end: 0 or -1, and -1 only if a call of the run raised an error.
C9_ErrorsDoNotStop ==
    [][/\ pc' = "run" => ret' = ret /\ errs'.sdl = errs.sdl
       /\ (pc = "run" /\ pc' = "returned")
            => /\ n' = Len(queue) /\ Len(Marks) = Len(queue)
               /\ ret' \in {0, -1}
               /\ ret' = -1 => hist.raised # {}
               /\ errs'.sdl # errs.sdl => ret' = -1]_vars

C9_Witness ==
    /\ pc = "returned" /\ hist.activated
    /\ Len(queue) = MaxCmds /\ n = MaxCmds
    /\ hist.raised_at = {1}
    /\ ret = -1
    /\ errs.sdl \in hist.raised

ChecksMessages ==
    /\ pc = "run" /\ pc' = "returned"
    /\ data.GL_ARB_debug_output_supported
    /\ Len(errs.messages) > 0

\* C11 as stated: the check surfaces the first diagnostic recorded and empties
\* the list.
C11_FirstMessage ==
    [][ChecksMessages => errs'.sdl = errs.messages[1] /\ errs'.messages = <<>>]_vars

\* C11: the check fails, the SDL error it leaves is the last diagnostic recorded
\* (SDL_SetError is called for each in turn, each call replacing the text of the
\* one before), and the list is empty after the check.
C11_LastMessage ==
    [][ChecksMessages
          => /\ ret' = -1
             /\ errs'.sdl = errs.messages[Len(errs.messages)]
             /\ errs'.messages = <<>>]_vars

C11_Witness ==
    /\ pc = "returned" /\ hist.activated
    /\ data.GL_ARB_debug_output_supported
    /\ hist.raised_at = {1, 2}
    /\ Cardinality(hist.raised) = 2
    /\ ret = -1
    /\ errs.sdl \in hist.raised
    /\ errs.messages = <<>>

\* A step of the loop that runs a SetViewport command.
ViewportStep == IsStep /\ last'.command = "SDL_RENDERCMD_SETVIEWPORT"

\* The orthographic projection over a viewport of extent w by h.
OrthoOf(w, h) ==
    <<Call("glOrtho", [l |-> 0, r |-> w, b |-> IF st.istarget THEN 0 ELSE h,
                       t |-> IF st.istarget THEN h ELSE 0])>>

\* C12: a SetViewport command whose rect differs from the cached viewport makes
\* the cache that rect and programs the viewport (y = rect.y for a texture
\* target, drawable height - rect.y - rect.h for the window) and an orthographic
\* projection of the rect's width and height; one whose rect equals the cache
\* issues no call.
C12_ViewportProjection ==
    [][ViewportStep
          => IF last'.rect # st.viewport
             THEN /\ st'.viewport = last'.rect
                  /\ gl'.viewport = [x |-> last'.rect.x,
                                     y |-> IF st.istarget THEN last'.rect.y
                                           ELSE st.drawableh - last'.rect.y - last'.rect.h,
                                     w |-> last'.rect.w, h |-> last'.rect.h]
                  /\ gl'.projection = OrthoOf(last'.rect.w, last'.rect.h)
             ELSE calls' = <<>> /\ st' = st]_vars

\* A step of the loop that runs a SetClipRect command.
ClipRectStep == IsStep /\ last'.command = "SDL_RENDERCMD_SETCLIPRECT"

\* C13: a SetClipRect command toggles the scissor test exactly when its flag
\* differs from the cached flag, and programs the scissor box exactly when its
\* flag is set and its rect differs from the cached rect, with
\* y = viewport.y + rect.y for a texture target and
\* drawable height - viewport.y - rect.y - rect.h for the window; it issues no
\* other call.
C13_ClipRect ==
    [][ClipRectStep
          => LET toggle == last'.enabled # st.cliprect_enabled
                 program == last'.enabled /\ last'.rect # st.cliprect
                 box == [x |-> st.viewport.x + last'.rect.x,
                         y |-> IF st.istarget THEN st.viewport.y + last'.rect.y
                               ELSE st.drawableh - st.viewport.y - last'.rect.y - last'.rect.h,
                         w |-> last'.rect.w, h |-> last'.rect.h]
             IN  /\ calls' = (IF toggle
                              THEN <<Call(IF last'.enabled THEN "glEnable" ELSE "glDisable",
                                          "GL_SCISSOR_TEST")>>
                              ELSE <<>>)
                             \o (IF program THEN <<Call("glScissor", box)>> ELSE <<>>)
                 /\ toggle => gl'.scissor_test = last'.enabled
                 /\ ~toggle => gl'.scissor_test = gl.scissor_test
                 /\ gl'.scissor_box = (IF program THEN box ELSE gl.scissor_box)
                 /\ st'.cliprect_enabled = last'.enabled
                 /\ st'.cliprect = (IF program THEN last'.rect ELSE st.cliprect)]_vars

C13_Witness ==
    /\ pc = "run" /\ n = 2
    /\ last = CmdSetClipRect(TRUE, RectSmall)
    /\ renderer.target = NULL /\ ~renderer.clipping_enabled /\ renderer.clip_rect = RectFull
    /\ st.viewport = RectSmall /\ renderer.viewport = RectFull
    /\ Len(calls) = 2
    /\ gl.scissor_test
    /\ gl.scissor_box = [x |-> 2, y |-> DrawableH - 3, w |-> 2, h |-> 1]

\* A step of the loop that runs a DrawLines command.
LinesStep == IsStep /\ last'.command = "SDL_RENDERCMD_DRAW_LINES"

\* The vertex list of a draw command: its count points from point first on.
OwnVerts(c) == [i \in 1..c.count |-> VertexAt(renderer, c.first + i - 1)]

\* The calls of a handler from its first glBegin on.
FromBegin(cs) ==
    LET k == CHOOSE i \in 1..Len(cs) :
                 cs[i].f = "glBegin" /\ \A j \in 1..(i - 1) : cs[j].f # "glBegin"
    IN  SubSeq(cs, k, Len(cs))

\* One primitive of the given mode over the points vs.
PrimCalls(mode, vs) ==
    <<Call("glBegin", mode)>> \o [i \in 1..Len(vs) |-> Call("glVertex2f", vs[i])]
    \o <<Call("glEnd", NULL)>>

\* The calls cs are one line strip over vs followed by one point draw.
IsStripAndPoint(cs, vs) ==
    /\ Len(cs) >= Len(vs) + 4
    /\ SubSeq(cs, 1, Len(vs) + 2) = PrimCalls("GL_LINE_STRIP", vs)
    /\ cs[Len(vs) + 3] = Call("glBegin", "GL_POINTS")
    /\ cs[Len(cs)] = Call("glEnd", NULL)
    /\ \A i \in (Len(vs) + 4)..(Len(cs) - 1) : cs[i].f = "glVertex2f"

\* C14 as stated: a DrawLines whose first and last vertices coincide emits one
\* closed loop over its first count - 1 vertices and no extra point; any other
\* emits a line strip over all its vertices and an extra point draw.
C14_LoopWhenClosed ==
    [][LinesStep
          => LET vs == OwnVerts(last')
             IN  IF vs[1] = vs[Len(vs)]
                 THEN FromBegin(calls') = PrimCalls("GL_LINE_LOOP", SubSeq(vs, 1, Len(vs) - 1))
                 ELSE IsStripAndPoint(FromBegin(calls'), vs)]_vars

\* C14: a DrawLines of more than two vertices whose first and last vertices
\* coincide emits one closed loop over its first count - 1 vertices and no extra
\* point; any other, a two-vertex line from a point to itself included, emits a
\* line strip over all its vertices followed by one point draw.
C14_LoopWhenClosedAndLong ==
    [][LinesStep
          => LET vs == OwnVerts(last')
             IN  IF Len(vs) > 2 /\ vs[1] = vs[Len(vs)]
                 THEN FromBegin(calls') = PrimCalls("GL_LINE_LOOP", SubSeq(vs, 1, Len(vs) - 1))
                 ELSE IsStripAndPoint(FromBegin(calls'), vs)]_vars

C14_Witness ==
    /\ pc = "run" /\ n = 2
    /\ last.command = "SDL_RENDERCMD_DRAW_LINES"
    /\ last.count = 3 /\ last.first = 1
    /\ OwnVerts(last)[1] = OwnVerts(last)[3]
    /\ OwnVerts(last)[1] # OwnVerts(last)[2]
    /\ HasCall(calls, "glBegin") /\ ~HasCall(calls, "glColor4f")
    /\ gl.prim.mode = "GL_LINE_LOOP"
    /\ CountCalls(calls, "glVertex2f") = 2

\* The vertices of the extra point draw that follows a strip over vs.
ExtraVerts(cs, vs) ==
    LET d == FromBegin(cs)
    IN  [i \in 1..(Len(d) - Len(vs) - 4) |-> d[Len(vs) + 3 + i].a]

\* C15: the extra point draw of a line strip holds one point, an end point of
\* the command's own vertex list: the last vertex in a Mac OS X or Windows
\* build, elsewhere the first or last vertex, whichever is further right or
\* further down.
C15_ExtraPointIsEndpoint ==
    [][(LinesStep /\ HasCall(calls', "glEnd") /\ gl'.prim.mode = "GL_POINTS")
          => LET vs == OwnVerts(last')
                 first == vs[1]
                 end == vs[Len(vs)]
                 ps == ExtraVerts(calls', vs)
             IN  /\ Len(ps) = 1
                 /\ IF data.macosx_or_win32
                    THEN ps[1] = end
                    ELSE /\ ps[1] \in {first, end}
                         /\ \/ (ps[1].x >= first.x /\ ps[1].x >= end.x)
                            \/ (ps[1].y >= first.y /\ ps[1].y >= end.y)]_vars

\* The shader of a texture by its plane layout and conversion mode.
ShaderNames ==
    [rgb |-> [SDL_YUV_CONVERSION_JPEG |-> "SHADER_RGB", SDL_YUV_CONVERSION_BT601 |-> "SHADER_RGB",
              SDL_YUV_CONVERSION_BT709 |-> "SHADER_RGB"],
     yuv |-> [SDL_YUV_CONVERSION_JPEG |-> "SHADER_YUV_JPEG",
              SDL_YUV_CONVERSION_BT601 |-> "SHADER_YUV_BT601",
              SDL_YUV_CONVERSION_BT709 |-> "SHADER_YUV_BT709"],
     nv12 |-> [SDL_YUV_CONVERSION_JPEG |-> "SHADER_NV12_JPEG",
               SDL_YUV_CONVERSION_BT601 |-> "SHADER_NV12_BT601",
               SDL_YUV_CONVERSION_BT709 |-> "SHADER_NV12_BT709"],
     nv21 |-> [SDL_YUV_CONVERSION_JPEG |-> "SHADER_NV21_JPEG",
               SDL_YUV_CONVERSION_BT601 |-> "SHADER_NV21_BT601",
               SDL_YUV_CONVERSION_BT709 |-> "SHADER_NV21_BT709"]]

\* The plane layout of a pixel format.
LayoutOf(format) ==
    CASE format \in {"SDL_PIXELFORMAT_YV12", "SDL_PIXELFORMAT_IYUV"} -> "yuv"
      [] format = "SDL_PIXELFORMAT_NV12" -> "nv12"
      [] format = "SDL_PIXELFORMAT_NV21" -> "nv21"
      [] OTHER -> "rgb"

\* C16: after a Copy or CopyEx the shader in use is the one named by the
\* texture's plane layout and conversion mode alone (RGB for a plain texture,
\* YUV_*, NV12_* or NV21_* for the others), whatever ran before; without a
\* shader context no shader is ever selected.
C16_ShaderByLayout ==
    /\ data.shaders = NULL => gl.program = "none" /\ ~HasCall(calls, "GL_SelectShader")
    /\ (pc = "run" /\ last.command \in CopyCommands /\ data.shaders # NULL)
          => LET t == TextureData(last.texture)
                 shader == ShaderNames[LayoutOf(t.format)][t.yuvmode]
             IN  gl.program = shader /\ st.shader = shader

C16_Witness ==
    /\ pc = "run" /\ n = 2
    /\ data.shaders # NULL
    /\ last.command = "SDL_RENDERCMD_COPY_EX"
    /\ last.texture = "tex_nv21_bt709"
    /\ gl.program = "SHADER_NV21_BT709"
    /\ HasCall(calls, "GL_SelectShader")
    /\ ~HasCap(calls, "GL_BLEND")

CopyExStep == IsStep /\ last'.command = "SDL_RENDERCMD_COPY_EX"

\* C17: every CopyEx command pushes exactly one transform and pops exactly one,
\* the push before the pop, so the depth of the matrix stack and the current
\* model-view transform after the command are those before it; at the end of a
\* run the stack is as deep as at its start.
C17_CopyExBalanced ==
    /\ [][CopyExStep =>
            /\ CountCalls(calls', "glPushMatrix") = 1
            /\ CountCalls(calls', "glPopMatrix") = 1
            /\ \E i, j \in 1..Len(calls') :
                  i < j /\ calls'[i].f = "glPushMatrix" /\ calls'[j].f = "glPopMatrix"
            /\ gl'.stack = gl.stack
            /\ gl'.modelview = gl.modelview]_vars
    /\ [][~CopyExStep => gl'.stack = gl.stack]_vars
    /\ [](pc = "returned" => gl.stack = <<>>)

C17_Witness ==
    /\ pc = "run" /\ n = 2
    /\ last.command = "SDL_RENDERCMD_COPY_EX"
    /\ hist.repeated
    /\ CountCalls(calls, "glPushMatrix") = 1
    /\ CountCalls(calls, "glRotated") = 1
    /\ gl.stack = <<>>
    /\ gl.modelview = <<>>

\* The factors and the operations that map to an OpenGL enum.
NativeFactors == {f \in BlendFactors : GetBlendFunc(f) # GL_INVALID_ENUM}
NativeOperations == {o \in BlendOperations : GetBlendEquation(o) # GL_INVALID_ENUM}

\* C18: GL_SupportsBlendMode returns true exactly for the modes whose four
\* factors and two operations all map to an OpenGL enum and whose color
\* operation equals the alpha operation; it returns false for every mode whose
\* two operations differ.
C18_SupportsBlendMode ==
    api.f = "GL_SupportsBlendMode" =>
        LET m == api.arg
        IN  /\ api.ret = TRUE <=>
                  /\ {m.srcColorFactor, m.dstColorFactor, m.srcAlphaFactor, m.dstAlphaFactor}
                        \subseteq NativeFactors
                  /\ {m.colorOperation, m.alphaOperation} \subseteq NativeOperations
                  /\ m.colorOperation = m.alphaOperation
            /\ m.colorOperation # m.alphaOperation => api.ret = FALSE

C18_Witness ==
    /\ api.f = "GL_SupportsBlendMode"
    /\ api.arg.colorOperation = "SDL_BLENDOPERATION_ADD"
    /\ api.arg.alphaOperation = "SDL_BLENDOPERATION_SUBTRACT"
    /\ api.arg.srcColorFactor = "SDL_BLENDFACTOR_DST_ALPHA"
    /\ api.arg.dstColorFactor # "0x0" /\ api.arg.srcAlphaFactor # "0x0"
    /\ api.arg.dstAlphaFactor # "0x0"
    /\ api.ret = FALSE

\* The formats of convert_format's table in this build.
TableFormats ==
    {"SDL_PIXELFORMAT_ARGB8888", "SDL_PIXELFORMAT_YV12", "SDL_PIXELFORMAT_IYUV",
     "SDL_PIXELFORMAT_NV12", "SDL_PIXELFORMAT_NV21"}
    \cup (IF data.macosx THEN {"SDL_PIXELFORMAT_UYVY"} ELSE {})

\* The last operation was a GL_CreateTexture of a render target on a renderer
\* without framebuffer objects.
TargetUnsupported ==
    /\ api.f = "GL_CreateTexture"
    /\ api.arg.access = "SDL_TEXTUREACCESS_TARGET"
    /\ ~data.GL_EXT_framebuffer_object_supported

\* The last operation was a GL_CreateTexture of a format outside the table.
FormatUnsupported ==
    /\ api.f = "GL_CreateTexture"
    /\ api.arg.format \notin TableFormats

\* The call failed with the message msg and made nothing: no allocation, no
\* texture name, no driver data.
FailedWithNothing(msg) ==
    /\ api.ret = -1
    /\ errs.sdl = msg
    /\ tex.driverdata = NullPtr
    /\ ~HasCall(calls, "SDL_calloc")
    /\ ~HasCall(calls, "glGenTextures")
    /\ calls = <<>>

\* C19 as stated: GL_CreateTexture fails with the format error whenever the
\* format is outside the table, and with the render-target error whenever a
\* target is asked of a renderer without framebuffer objects, creating nothing.
C19_CreateFails ==
    /\ FormatUnsupported => FailedWithNothing("Texture format not supported by OpenGL")
    /\ TargetUnsupported => FailedWithNothing("Render targets not supported by OpenGL")

\* C19: GL_CreateTexture fails with the render-target error whenever a target
\* is asked of a renderer without framebuffer objects, whatever the format, and
\* with the format error when the format is outside the table and the
\* render-target test passed; in both cases it allocates no driver data and no
\* pixel buffer and generates no texture.
C19_CreateFailsTargetFirst ==
    /\ TargetUnsupported => FailedWithNothing("Render targets not supported by OpenGL")
    /\ (FormatUnsupported /\ ~TargetUnsupported)
          => FailedWithNothing("Texture format not supported by OpenGL")

C19_Witness ==
    /\ FormatUnsupported /\ ~TargetUnsupported
    /\ api.arg.access = "SDL_TEXTUREACCESS_TARGET"
    /\ api.arg.format = "SDL_PIXELFORMAT_UYVY"
    /\ api.ret = -1
    /\ errs.sdl = "Texture format not supported by OpenGL"
    /\ current_context = data.context

\* The least k with 2k >= x.
CeilHalf(x) == CHOOSE k \in 0..x : 2 * k >= x /\ 2 * (k - 1) < x

\* The last operation created a streaming texture of a two-plane format.
StreamingTwoPlane ==
    /\ api.f = "GL_CreateTexture"
    /\ api.arg.access = "SDL_TEXTUREACCESS_STREAMING"
    /\ api.arg.format \in {"SDL_PIXELFORMAT_NV12", "SDL_PIXELFORMAT_NV21"}
    /\ tex.driverdata # NullPtr

\* C20 as stated: the pixel buffer of a streaming NV12 or NV21 texture of height
\* h and pitch p has h*p + 1*ceil(h/2)*ceil(p/2) bytes.
C20_OneChromaPlane ==
    StreamingTwoPlane =>
        LET h == tex.h
            pitch == tex.driverdata.pitch
        IN  tex.driverdata.pixels.size = h * pitch + 1 * CeilHalf(h) * CeilHalf(pitch)

\* C20: the pixel buffer of a streaming NV12 or NV21 texture of height h and
\* pitch p has h*p + 2*ceil(h/2)*ceil(p/2) bytes, the pitch being the width, and
\* that is the size asked of SDL_calloc.
C20_TwoBytesPerChroma ==
    StreamingTwoPlane =>
        LET h == tex.h
            pitch == tex.driverdata.pitch
            size == h * pitch + 2 * CeilHalf(h) * CeilHalf(pitch)
        IN  /\ pitch = tex.w
            /\ tex.driverdata.pixels.size = size
            /\ \E i \in 1..Len(calls) :
                  /\ calls[i].f = "SDL_calloc"
                  /\ calls[i].a.block = "pixels"
                  /\ calls[i].a.size = size

C20_Witness ==
    /\ StreamingTwoPlane
    /\ api.ret = 0
    /\ api.arg.format = "SDL_PIXELFORMAT_NV21"
    /\ tex.w = 3 /\ tex.h = 3
    /\ tex.driverdata.pixels.size = 17
    /\ tex.driverdata.nv12

\* The last operation created a streaming texture of a three-plane format.
StreamingThreePlane ==
    /\ api.f = "GL_CreateTexture"
    /\ api.arg.access = "SDL_TEXTUREACCESS_STREAMING"
    /\ api.arg.format \in {"SDL_PIXELFORMAT_YV12", "SDL_PIXELFORMAT_IYUV"}
    /\ tex.driverdata # NullPtr

\* C21: the pixel buffer of a streaming YV12 or IYUV texture of height h and
\* pitch p has h*p + 2*ceil(h/2)*ceil(p/2) bytes, and that is the size asked of
\* SDL_calloc.
C21_ThreePlaneSize ==
    StreamingThreePlane =>
        LET h == tex.h
            pitch == tex.driverdata.pitch
            size == h * pitch + 2 * CeilHalf(h) * CeilHalf(pitch)
        IN  /\ tex.driverdata.pixels.size = size
            /\ \E i \in 1..Len(calls) :
                  /\ calls[i].f = "SDL_calloc"
                  /\ calls[i].a.block = "pixels"
                  /\ calls[i].a.size = size

C21_Witness ==
    /\ StreamingThreePlane
    /\ api.ret = 0
    /\ api.arg.format = "SDL_PIXELFORMAT_IYUV"
    /\ tex.w = 3 /\ tex.h = 3
    /\ tex.driverdata.pitch = 3
    /\ tex.driverdata.pixels.size = 17
    /\ tex.driverdata.yuv

\* The texture names the last operation generated, the first one apart.
AuxiliaryNames ==
    {calls[i].a : i \in {j \in 1..Len(calls) : calls[j].f = "glGenTextures"}}
    \ {tex.driverdata.texture}

\* The auxiliary textures a pixel format calls for.
AuxiliaryCount(format) ==
    CASE format \in {"SDL_PIXELFORMAT_NV12", "SDL_PIXELFORMAT_NV21"} -> 1
      [] format \in {"SDL_PIXELFORMAT_YV12", "SDL_PIXELFORMAT_IYUV"} -> 2
      [] OTHER -> 0

\* C22: a GL_CreateTexture that returns success has generated, besides the
\* texture of the first plane, exactly one texture for NV12 and NV21, exactly two
\* for YV12 and IYUV and none for any other format, whatever the access, the size
\* and the renderer; they are the ones the driver data names.
C22_AuxiliaryTextures ==
    (api.f = "GL_CreateTexture" /\ api.ret = 0) =>
        /\ CountCalls(calls, "glGenTextures") = 1 + AuxiliaryCount(tex.format)
        /\ Cardinality(AuxiliaryNames) = AuxiliaryCount(tex.format)
        /\ AuxiliaryNames = {tex.driverdata.utexture, tex.driverdata.vtexture} \ {0}

C22_Witness ==
    /\ api.f = "GL_CreateTexture" /\ api.ret = 0
    /\ tex.format = "SDL_PIXELFORMAT_NV12"
    /\ tex.access = "SDL_TEXTUREACCESS_TARGET"
    /\ CountCalls(calls, "glGenTextures") = 2
    /\ tex.driverdata.utexture # 0
    /\ tex.driverdata.vtexture = 0

\* The least power of two that is at least x.
LeastPowerOfTwo(x) ==
    CHOOSE q \in {1, 2, 4, 8, 16} : q >= x /\ \A r \in {1, 2, 4, 8, 16} : r >= x => q <= r

\* The last operation gave a texture its image on a renderer that has textures
\* of powers of two only.
PowerOfTwoImage ==
    /\ api.f = "GL_CreateTexture"
    /\ tex.driverdata # NullPtr
    /\ ~data.GL_ARB_texture_non_power_of_two_supported
    /\ ~data.GL_ARB_texture_rectangle_supported

\* The glTexImage2D call of the texture's first plane.
FirstImage == calls[CHOOSE i \in 1..Len(calls) :
                        calls[i].f = "glTexImage2D"
                        /\ \A j \in 1..(i - 1) : calls[j].f # "glTexImage2D"]

\* C23: on a renderer with neither GL_ARB_texture_non_power_of_two nor
\* rectangle textures the image of a texture is as wide and as high as the
\* least power of two that is at least the requested width and height, and the
\* scale factors are requested/allocated, at most 1.
C23_PowerOfTwoSize ==
    PowerOfTwoImage =>
        /\ FirstImage.a.w = LeastPowerOfTwo(tex.w)
        /\ FirstImage.a.h = LeastPowerOfTwo(tex.h)
        /\ tex.driverdata.texw = <<tex.w, LeastPowerOfTwo(tex.w)>>
        /\ tex.driverdata.texh = <<tex.h, LeastPowerOfTwo(tex.h)>>
        /\ tex.driverdata.texw[1] <= tex.driverdata.texw[2]
        /\ tex.driverdata.texh[1] <= tex.driverdata.texh[2]

C23_Witness ==
    /\ PowerOfTwoImage
    /\ api.ret = 0
    /\ tex.w = 3 /\ tex.h = 3
    /\ FirstImage.a.w = 4 /\ FirstImage.a.h = 4
    /\ tex.driverdata.texw = <<3, 4>>

\* The uploads of the last operation: for each glTexSubImage2D, the texture
\* bound when it was called, its rectangle and the offset of its pixels.
BoundAt(i) ==
    calls[CHOOSE j \in 1..(i - 1) :
              calls[j].f = "glBindTexture"
              /\ \A k \in (j + 1)..(i - 1) : calls[k].f # "glBindTexture"].a

Uploads ==
    LET at == SelectSeq([i \in 1..Len(calls) |-> i],
                        LAMBDA i : calls[i].f = "glTexSubImage2D")
    IN  [k \in 1..Len(at) |->
            [texture |-> BoundAt(at[k]),
             rect |-> [x |-> calls[at[k]].a.x, y |-> calls[at[k]].a.y,
                       w |-> calls[at[k]].a.w, h |-> calls[at[k]].a.h],
             offset |-> calls[at[k]].a.pixels]]

Upload(texture, rect, offset) == [texture |-> texture, rect |-> rect, offset |-> offset]

\* C24: GL_UpdateTexture of a rectangle (x,y,w,h) from a buffer of pitch p
\* uploads the first plane from offset 0, and then, to the rectangle
\* (x/2, y/2, ceil(w/2), ceil(h/2)): for YV12 the V texture from offset h*p and
\* the U texture from h*p + ceil(h/2)*ceil(p/2); for IYUV the U texture and then
\* the V texture from the same offsets; for NV12 and NV21 the one auxiliary
\* texture from offset h*p.
C24_PlaneOrder ==
    api.f = "GL_UpdateTexture" =>
        LET rect == api.arg.rect
            p == api.arg.pitch
            dd == tex.driverdata
            half == [x |-> rect.x \div 2, y |-> rect.y \div 2, w |-> CeilHalf(rect.w),
                     h |-> CeilHalf(rect.h)]
            second == rect.h * p
            third == rect.h * p + CeilHalf(rect.h) * CeilHalf(p)
            luma == <<Upload(dd.texture, rect, 0)>>
        IN  Uploads =
              CASE tex.format = "SDL_PIXELFORMAT_YV12" ->
                      luma \o <<Upload(dd.vtexture, half, second),
                                Upload(dd.utexture, half, third)>>
                [] tex.format = "SDL_PIXELFORMAT_IYUV" ->
                      luma \o <<Upload(dd.utexture, half, second),
                                Upload(dd.vtexture, half, third)>>
                [] tex.format \in {"SDL_PIXELFORMAT_NV12", "SDL_PIXELFORMAT_NV21"} ->
                      luma \o <<Upload(dd.utexture, half, second)>>
                [] OTHER -> luma

C24_Witness ==
    /\ api.f = "GL_UpdateTexture"
    /\ tex.format = "SDL_PIXELFORMAT_YV12"
    /\ api.arg.rect = [x |-> 1, y |-> 1, w |-> 2, h |-> 1]
    /\ api.arg.pitch = 3
    /\ Len(Uploads) = 3
    /\ Uploads[2] = Upload(tex.driverdata.vtexture, [x |-> 0, y |-> 0, w |-> 1, h |-> 1], 3)
    /\ Uploads[3].offset = 5

\* C25 as stated: GL_SetRenderTarget for no texture binds framebuffer 0 and
\* returns success, whatever was bound and whatever the renderer supports.
C25_DetachAlways ==
    (api.f = "GL_SetRenderTarget" /\ api.arg.texture = 0) =>
        /\ api.ret = 0
        /\ calls = <<Call("glBindFramebufferEXT", 0)>>
        /\ gl.framebuffer = 0

\* C25, amended: with framebuffer objects supported, GL_SetRenderTarget for no
\* texture binds framebuffer 0 and returns success whatever was bound before;
\* without them it makes no backend call and fails with "Render targets not
\* supported by OpenGL".
C25_DetachIfSupported ==
    (api.f = "GL_SetRenderTarget" /\ api.arg.texture = 0) =>
        IF data.GL_EXT_framebuffer_object_supported
        THEN /\ api.ret = 0
             /\ calls = <<Call("glBindFramebufferEXT", 0)>>
             /\ gl.framebuffer = 0
        ELSE /\ api.ret = -1
             /\ calls = <<>>
             /\ errs.sdl = "Render targets not supported by OpenGL"

C25_Witness ==
    /\ api.f = "GL_SetRenderTarget"
    /\ api.arg.texture = 0
    /\ api.arg.bound # 0
    /\ api.ret = 0
    /\ gl.framebuffer = 0

\* The hardware textures a texture owns through its driver data.
Owned(t) ==
    IF t.driverdata = NullPtr THEN {}
    ELSE {t.driverdata.texture, t.driverdata.utexture, t.driverdata.vtexture} \ {0}

\* C26: after any sequence of GL_CreateTexture and GL_DestroyTexture calls the
\* textures of the context are exactly those owned by the textures that have
\* not been destroyed: GL_DestroyTexture deletes the primary and every
\* auxiliary texture.
C26_LiveTexturesOwned ==
    gl.textures = UNION {Owned(textures[s]) : s \in 1..MaxTextures}

LiveTargets ==
    {s \in 1..MaxTextures : /\ textures[s].access = "SDL_TEXTUREACCESS_TARGET"
                            /\ textures[s].driverdata # NullPtr}

\* C28: the framebuffer list never holds two entries of the same width and
\* height, every live target texture holds the entry of its own width and
\* height, and two live targets of the same size hold the same framebuffer.
C28_CacheKeyedBySize ==
    /\ \A i, j \in 1..Len(data.framebuffers) :
           (data.framebuffers[i].w = data.framebuffers[j].w
            /\ data.framebuffers[i].h = data.framebuffers[j].h) => i = j
    /\ \A s \in LiveTargets :
           \E i \in 1..Len(data.framebuffers) :
               /\ data.framebuffers[i].w = textures[s].w
               /\ data.framebuffers[i].h = textures[s].h
               /\ data.framebuffers[i].FBO = textures[s].driverdata.fbo
    /\ \A s1, s2 \in LiveTargets :
           (textures[s1].w = textures[s2].w /\ textures[s1].h = textures[s2].h) =>
               textures[s1].driverdata.fbo = textures[s2].driverdata.fbo

\* The places of the calls of f among the calls of the last operation.
Places(f) == {i \in 1..Len(calls) : calls[i].f = f}

\* C29 as stated: GL_DestroyRenderer deletes every framebuffer before it
\* destroys the shader context, and that before it deletes the context.
C29_FramebuffersFirst ==
    api.f = "GL_DestroyRenderer" =>
        /\ \A i \in Places("glDeleteFramebuffersEXT"), j \in Places("GL_DestroyShaderContext") :
               i < j
        /\ \A i \in Places("GL_DestroyShaderContext"), j \in Places("SDL_GL_DeleteContext") :
               i < j

\* C29, amended: GL_DestroyRenderer destroys the shader context first, then
\* deletes every framebuffer of the list, then deletes the context.
C29_ShadersFirst ==
    api.f = "GL_DestroyRenderer" =>
        /\ \A i \in Places("GL_DestroyShaderContext"), j \in Places("glDeleteFramebuffersEXT") :
               i < j
        /\ \A i \in Places("glDeleteFramebuffersEXT") \cup Places("GL_DestroyShaderContext"),
              j \in Places("SDL_GL_DeleteContext") : i < j
        /\ {calls[i].a : i \in Places("glDeleteFramebuffersEXT")} =
               {api.arg.framebuffers[k].FBO : k \in 1..Len(api.arg.framebuffers)}
        /\ Places("SDL_GL_DeleteContext") # {}
        /\ (api.arg.shaders # NULL => Places("GL_DestroyShaderContext") # {})

C29_Witness ==
    /\ api.f = "GL_DestroyRenderer"
    /\ Cardinality(Places("glDeleteFramebuffersEXT")) = 2
    /\ Places("GL_DestroyShaderContext") # {}
    /\ Places("SDL_GL_DeleteContext") # {}

\* The backend entry points that GL_LoadFunctions and the extension checks load.
EntryPoints ==
    {"glGetError", "glDebugMessageCallbackARB", "glDeleteFramebuffersEXT",
     "glDeleteTextures", "glBindFramebufferEXT", "glEnable", "glDisable"}

\* C30: when GL_CreateRenderer fails for want of driver data or of a context,
\* or because SDL_GL_MakeCurrent or GL_LoadFunctions failed, the
\* GL_DestroyRenderer it calls invokes no backend entry point and no shader
\* release, deletes no null context, and deletes the context and frees the
\* driver data and the renderer once each if they were made; and every
\* GL_DestroyRenderer deletes each framebuffer, the shader context and the
\* context at most once.
C30_PartialDestroy ==
    /\ (api.f = "GL_CreateRenderer" /\ api.ret = NULL
        /\ api.arg \in {"data", "context", "makecurrent", "load"}) =>
           /\ \A i \in 1..Len(calls) :
                  calls[i].f \notin EntryPoints \cup {"GL_DestroyShaderContext"}
           /\ \A i \in Places("SDL_GL_DeleteContext") : calls[i].a # NULL
           /\ Cardinality(Places("SDL_GL_DeleteContext")) =
                  (IF api.arg \in {"makecurrent", "load"} THEN 1 ELSE 0)
           /\ Cardinality({i \in Places("SDL_free") : calls[i].a = "data"}) =
                  (IF api.arg = "data" THEN 0 ELSE 1)
           /\ Cardinality({i \in Places("SDL_free") : calls[i].a = "renderer"}) = 1
    /\ api.f \in {"GL_CreateRenderer", "GL_DestroyRenderer"} =>
           /\ Cardinality(Places("SDL_GL_DeleteContext")) <= 1
           /\ Cardinality(Places("GL_DestroyShaderContext")) <= 1
           /\ \A i, j \in Places("glDeleteFramebuffersEXT") : calls[i].a = calls[j].a => i = j

C30_Witness ==
    /\ api.f = "GL_CreateRenderer"
    /\ api.arg = "makecurrent"
    /\ api.ret = NULL
    /\ data = NullPtr
    /\ Cardinality(Places("SDL_GL_MakeCurrent")) = 2
    /\ Places("SDL_GL_DeleteContext") # {}

\* C31: GL_ActivateRenderer calls SDL_GL_MakeCurrent if and only if the current
\* context is not the renderer's; after it returns 0 the renderer's context is
\* current; and an activation that follows a successful one makes no switch.
C31_ActivateOnce ==
    api.f = "GL_ActivateRenderer" =>
        /\ (Places("SDL_GL_MakeCurrent") # {}) <=> (api.arg.current # data.context)
        /\ Cardinality(Places("SDL_GL_MakeCurrent")) <= 1
        /\ api.ret = 0 => current_context = data.context
        /\ api.ret # 0 => current_context = api.arg.current
        /\ api.arg.again => (Places("SDL_GL_MakeCurrent") = {} /\ api.ret = 0)

C31_Witness ==
    /\ api.f = "GL_ActivateRenderer"
    /\ api.arg.again
    /\ api.arg.current = data.context
    /\ api.ret = 0
    /\ Places("SDL_GL_MakeCurrent") = {}

\* The pixel of the window that SDL calls (x, y), the origin being the upper
\* left corner.
PixelAt(x, y) == window[<<x, DrawableH - 1 - y>>]

\* Whether command c covers the pixel (x, y) of the window: a clear covers
\* every pixel, a FillRects those of its rectangles, which lie relative to the
\* viewport and are cut off at its edges.
Covers(c, x, y) ==
    \/ c.command = "SDL_RENDERCMD_CLEAR"
    \/ /\ c.command = "SDL_RENDERCMD_FILL_RECTS"
       /\ InBox(<<x, y>>, renderer.viewport)
       /\ \E i \in 0..(c.count - 1) :
              LET p1 == renderer.vertex_data[c.first + 2 * i + 1]
                  p2 == renderer.vertex_data[c.first + 2 * i + 2]
              IN  /\ p1.x <= 2 * (x - renderer.viewport.x)
                  /\ 2 * (x - renderer.viewport.x) < p2.x
                  /\ p1.y <= 2 * (y - renderer.viewport.y)
                  /\ 2 * (y - renderer.viewport.y) < p2.y

\* The commands of the list executed so far.
Executed == IF node = 0 THEN 1..Len(queue) ELSE 1..(node - 1)

\* C32: during and after a run of clears and fills without blending, every
\* pixel some executed command covers has the color of the last executed
\* command that covers it, and every other pixel is as it was; after
\* [Clear(red), FillRect({0,0,2,2}, blue)] on the whole window the pixel (1,1)
\* is blue and the pixel (3,3) red.
C32_LastWriterWins ==
    pc \in {"run", "returned"} =>
        \A x \in 0..(DrawableW - 1), y \in 0..(DrawableH - 1) :
            LET covering == {k \in Executed : Covers(queue[k], x, y)}
                lastk == CHOOSE k \in covering : \A j \in covering : j <= k
                c == queue[lastk].color
            IN  PixelAt(x, y) = IF covering = {} THEN NoPixels[<<x, y>>]
                                ELSE ColorArgs(c.r, c.g, c.b, c.a)

C32_Witness ==
    /\ pc = "returned"
    /\ ret = 0
    /\ Len(queue) = 2
    /\ queue[1] = CmdClear(Red)
    /\ queue[2].command = "SDL_RENDERCMD_FILL_RECTS"
    /\ queue[2].color = Blue
    /\ renderer.vertex_data = <<Pt(0, 0), Pt(4, 4)>>
    /\ renderer.viewport = [x |-> 0, y |-> 0, w |-> DrawableW, h |-> DrawableH]
    /\ PixelAt(1, 1) = ColorArgs(0, 0, 255, 255)
    /\ PixelAt(3, 3) = ColorArgs(255, 0, 0, 255)

\* C33: the handler of the command just executed has read vertex data only
\* inside the range its Queue* call reserved.
C33_ReadsInsideRange ==
    (pc = "run" /\ n > 0) => FloatsRead(data, renderer, last) \subseteq FloatsReserved(last)

\* C34: while the queue runs, the cached texturing flag is true exactly when
\* the texture target is enabled in the backend.
C34_TexturingFlagExact ==
    pc = "run" => (st.texturing <=> gl.texturing)

\* C35: while the queue runs with clipping enabled, the scissor box of the
\* backend is the cached clip rect offset by the origin of the cached viewport
\* (flipped vertically for the window), also after a SetViewport command.
C35_ScissorFollowsViewport ==
    (pc = "run" /\ st.cliprect_enabled)
        => gl.scissor_box = [x |-> st.viewport.x + st.cliprect.x,
                             y |-> IF st.istarget THEN st.viewport.y + st.cliprect.y
                                   ELSE st.drawableh - st.viewport.y - st.cliprect.y
                                        - st.cliprect.h,
                             w |-> st.cliprect.w, h |-> st.cliprect.h]

\* C36: the multitexture entry point is invoked only by a renderer that
\* detected multitexture support, the only case in which it is loaded.
C36_MultitextureLoaded ==
    \A i \in 1..Len(calls) :
        calls[i].f = "glActiveTextureARB" => data.GL_ARB_multitexture_supported

\* C37: an operation generates textures only while the context of its own
\* renderer is current; when the context could not be made current, it issues
\* no such call and reports failure.
C37_OwnContextOnly ==
    [][(api.f = "none" /\ api'.f = "GL_CreateTexture" /\ HasCall(calls', "glGenTextures"))
          => current_context' = data.context]_vars

\* C38: after a GL_CreateTexture that returned failure the driver data of the
\* texture is null, no texture generated by the call is left in the backend,
\* and every block the call allocated has been freed.
C38_FailureLeavesNothing ==
    (api.f = "GL_CreateTexture" /\ api.ret = -1)
        => /\ tex.driverdata = NullPtr
           /\ gl.textures = {}
           /\ \A i \in 1..Len(calls) :
                  (calls[i].f = "SDL_calloc" /\ calls[i].a.ok)
                      => \E j \in (i + 1)..Len(calls) :
                             calls[j].f = "SDL_free" /\ calls[j].a = calls[i].a.block

\* C39: every target texture that GL_CreateTexture created holds a framebuffer
\* entry, so that GL_SetRenderTarget has an entry to read the framebuffer from.
C39_TargetsHaveFramebuffer ==
    \A s \in 1..MaxTextures :
        (/\ textures[s] # NoTexture
         /\ textures[s].driverdata # NullPtr
         /\ textures[s].access = "SDL_TEXTUREACCESS_TARGET")
            => textures[s].driverdata.fbo # 0

\* The glReadPixels calls among the calls of the last operation.
ReadCalls == {calls[i].a : i \in Places("glReadPixels")}

\* C40: a GL_RenderReadPixels of an empty rect returns success without a read;
\* a successful one of rect (x, y, w, h) reads once, the region at
\* y' = output height - y - h for the window and at y for a target, and row i
\* of its output holds the converted pixels of backend row h - 1 - i of the
\* region for the window and of row i for a target.
C40_ReadPixels ==
    api.f = "GL_RenderReadPixels" =>
        LET rect == api.arg.rect
            istarget == renderer.target # NULL
            y == IF istarget THEN rect.y ELSE OutputSize(renderer).h - rect.y - rect.h
            row(i) == IF istarget THEN i ELSE rect.h - 1 - i
            same == api.arg.pixel_format = "SDL_PIXELFORMAT_ARGB8888"
        IN  /\ (rect.w = 0 \/ rect.h = 0) => (api.ret = 0 /\ calls = <<>>)
            /\ (rect.w # 0 /\ rect.h # 0 /\ api.ret = 0)
                  => /\ Cardinality(Places("glReadPixels")) = 1
                     /\ \A c \in ReadCalls :
                            c.x = rect.x /\ c.y = y /\ c.w = rect.w /\ c.h = rect.h
                     /\ Len(api.pixels) = rect.h
                     /\ \A i \in 0..(rect.h - 1) :
                            /\ Len(api.pixels[i + 1]) = rect.w
                            /\ \A k \in 0..(rect.w - 1) :
                                   LET p == <<rect.x + k, y + row(i)>>
                                   IN  api.pixels[i + 1][k + 1] =
                                           IF same THEN p
                                           ELSE [format |-> api.arg.pixel_format, pixel |-> p]

\* A read of three rows from the window, whose middle row stays in place.
C40_Witness ==
    /\ api.f = "GL_RenderReadPixels" /\ api.ret = 0
    /\ renderer.target = NULL
    /\ api.arg.rect = [x |-> 1, y |-> 0, w |-> 2, h |-> 3]
    /\ api.arg.pixel_format = "SDL_PIXELFORMAT_ARGB8888"
    /\ ReadCalls = {[x |-> 1, y |-> DrawableH - 3, w |-> 2, h |-> 3,
                     format |-> "GL_BGRA", type |-> "GL_UNSIGNED_INT_8_8_8_8_REV"]}
    /\ api.pixels = <<<< <<1, DrawableH - 1>>, <<2, DrawableH - 1>> >>,
                      << <<1, DrawableH - 2>>, <<2, DrawableH - 2>> >>,
                      << <<1, DrawableH - 3>>, <<2, DrawableH - 3>> >>>>

====
